---- MODULE Spec2Model ----
(***************************************************************************)
(* KPI dashboard backend: the kpi_values fact table and its upsert paths,  *)
(* the target reconciliation (bulk upsert), the derived-metric functions,  *)
(* the fiscal period utilities, the regional rollup and the TTL cache.     *)
(*                                                                         *)
(* Dates are triples <<year, month, day>>.  A missing value (Python None)  *)
(* is NULL, an integer outside every value domain.  Decimal results        *)
(* quantized to 0.01 are integers in hundredths.                           *)
(***************************************************************************)
EXTENDS Integers, Sequences, FiniteSets, TLC

VARIABLES
    kpi_values,   \* the fact table: a set of rows
    nextId,       \* the table's id sequence
    pc,           \* per client process: position inside the running call
    call,         \* per client process: the arguments of the running / last call
    existing,     \* per client process: ids returned by the lookup (existing.data)
    ret,          \* per client process: outcome of the last completed call
    bulk,         \* per client process: the bulk_upsert_targets loop state
    lastWrite,    \* history: per composite identity, the value of the last write step run
    recon,        \* the sequential reconciliation client (bulk upsert, repeated calls)
    calc,         \* the last application of a pure metric / period function
    regional,     \* the last get_regional_summary call: its reads and its result
    cache,        \* CacheService._cache: key -> entry
    now,          \* time.time()
    financial_data, \* the financial_data table: <<month, is_target>> -> sales_total
    served,       \* the last response of the cached report
    matrix,       \* the last get_product_matrix request: its reads and its response
    requests,     \* RateLimitMiddleware.requests: client ip -> recorded timestamps
    limiter       \* the clock of the middleware and the history of its decisions

factVars == <<kpi_values, nextId>>
procVars == <<pc, call, existing, ret, bulk, lastWrite>>

cacheVars == <<cache, now, financial_data, served>>
limiterVars == <<requests, limiter>>
otherVars == <<calc, regional, cacheVars, matrix>>

vars == <<kpi_values, nextId, pc, call, existing, ret, bulk, lastWrite, recon,
          calc, regional, cache, now, financial_data, served, matrix,
          requests, limiter>>

NULL == 0 - 999

-----------------------------------------------------------------------------
(* Bounds and input domains *)

MaxTargets == 2

Procs == {"p1", "p2"}
\* the clients that run bulk_upsert_targets (the others make single calls)
BulkClients == {"p1"}
Segments == {"s1"}
Kpis == {"k1"}
\* months given to create_target_value / bulk_upsert_targets
FactDates == {<<2024, 9, 1>>, <<2024, 9, 15>>}
\* dates given to upsert_kpi_value
UpsertDates == {<<2024, 9, 15>>}
FactValues == {100, 200}

-----------------------------------------------------------------------------
(* metrics.normalize_to_month_start *)

\* the date is kept as given
NormalizeIdentity(target_date) == target_date

normalize_to_month_start(target_date) == <<target_date[1], target_date[2], 1>>

-----------------------------------------------------------------------------
(* metrics: fiscal year, year-to-date, ratio functions *)

MaxRows == 2

FiscalStartMonth == 9

\* operands handed to the ratio functions (NULL is Python None)
Operands == {NULL, 0 - 50, 0, 1, 3, 80, 100, 120}
YtdRowDates == {<<2024, 8, 1>>, <<2024, 9, 1>>, <<2024, 10, 1>>, <<2024, 11, 1>>}
YtdValues == {100}
\* rows of one KPI as the summary query returns them
YtdRows == [date : YtdRowDates, value : YtdValues, is_target : BOOLEAN]
YtdLists == UNION {[1..n -> YtdRows] : n \in 0..MaxRows}
YtdTargetDates == {<<2024, 8, 1>>, <<2024, 10, 1>>}
RangeDates == {<<2023, 11, 1>>, <<2023, 11, 30>>, <<2024, 2, 1>>, <<2024, 2, 29>>,
               <<2024, 3, 31>>, <<2025, 2, 28>>, <<2028, 2, 29>>}

IsLeap(year) == (year % 4 = 0 /\ year % 100 # 0) \/ year % 400 = 0

\* calendar.monthrange(year, month)[1]
monthrange(year, month) ==
    IF month = 2 THEN (IF IsLeap(year) THEN 29 ELSE 28)
    ELSE IF month \in {4, 6, 9, 11} THEN 30 ELSE 31

\* the date(year, month, day) constructor accepts the triple (else ValueError)
ValidDate(year, month, day) == month \in 1..12 /\ day \in 1..monthrange(year, month)

\* a <= b on dates
DateLE(a, b) ==
    \/ a[1] < b[1]
    \/ a[1] = b[1] /\ a[2] < b[2]
    \/ a[1] = b[1] /\ a[2] = b[2] /\ a[3] <= b[3]

\* a fiscal year that starts in April
get_fiscal_year_april(target_date) ==
    IF target_date[2] >= 4 THEN target_date[1] ELSE target_date[1] - 1

get_fiscal_year(target_date) ==
    IF target_date[2] >= FiscalStartMonth THEN target_date[1] ELSE target_date[1] - 1

get_fiscal_year_range(fiscal_year) ==
    LET end_year == fiscal_year + 1
        end_month == FiscalStartMonth - 1
    IN <<(<<fiscal_year, FiscalStartMonth, 1>>),
         (<<end_year, end_month, monthrange(end_year, end_month)>>)>>

\* item_date <= target_date, whatever the start of the fiscal year
InPeriodUntil(start_date, item_date, target_date) == DateLE(item_date, target_date)

\* start_date <= item_date <= target_date
InPeriod(start_date, item_date, target_date) ==
    DateLE(start_date, item_date) /\ DateLE(item_date, target_date)

\* what one row adds to total in the loop of calculate_ytd
YtdTerm(item, start_date, target_date, is_target) ==
    IF item.is_target # is_target THEN 0
    ELSE IF InPeriod(start_date, item.date, target_date) /\ item.value # NULL
         THEN item.value
         ELSE 0

RECURSIVE YtdTotal(_, _, _, _)
YtdTotal(values, start_date, target_date, is_target) ==
    IF values = <<>> THEN 0
    ELSE YtdTerm(Head(values), start_date, target_date, is_target)
         + YtdTotal(Tail(values), start_date, target_date, is_target)

\* NULL when no row was added, the total otherwise
calculate_ytd_absent(values, target_date, is_target) ==
    LET start_date == get_fiscal_year_range(get_fiscal_year(target_date))[1]
        hit == \E i \in 1..Len(values) :
                  /\ values[i].is_target = is_target
                  /\ InPeriod(start_date, values[i].date, target_date)
    IN IF hit THEN YtdTotal(values, start_date, target_date, is_target) ELSE NULL

calculate_ytd(values, target_date, is_target) ==
    LET fiscal_year == get_fiscal_year(target_date)
        start_date == get_fiscal_year_range(fiscal_year)[1]
    IN YtdTotal(values, start_date, target_date, is_target)

\* result.quantize(quantum, rounding=ROUND_HALF_UP) of n / d, in units of the quantum
RoundHalfUp(n, d) ==
    LET a == IF n < 0 THEN 0 - n ELSE n
        b == IF d < 0 THEN 0 - d ELSE d
        q == (2 * a + b) \div (2 * b)
    IN IF (n < 0) # (d < 0) THEN 0 - q ELSE q

Returned(v) == [raised |-> FALSE, value |-> v]
\* arithmetic on None raises TypeError
TypeError == [raised |-> TRUE, value |-> NULL]

\* the rate in hundredths of a percent
calculate_achievement_rate(actual, target) ==
    IF target = 0 THEN Returned(NULL)
    ELSE IF actual = NULL \/ target = NULL THEN TypeError
    ELSE Returned(RoundHalfUp(actual * 10000, target))

\* current / previous * 100, the previous value not subtracted
calculate_yoy_ratio(current, previous) ==
    IF previous = 0 THEN Returned(NULL)
    ELSE IF current = NULL \/ previous = NULL THEN TypeError
    ELSE Returned(RoundHalfUp(current * 10000, previous))

calculate_yoy_rate(current, previous) ==
    IF previous = 0 THEN Returned(NULL)
    ELSE IF current = NULL \/ previous = NULL THEN TypeError
    ELSE Returned(RoundHalfUp((current - previous) * 10000, previous))

\* the year-to-date fields of one KPI in get_department_summary
SummaryYtd(values, target_month, include_ytd) ==
    LET ytd_actual == IF include_ytd THEN calculate_ytd(values, target_month, FALSE) ELSE 0
        ytd_target == IF include_ytd THEN calculate_ytd(values, target_month, TRUE) ELSE 0
        achievement_rate ==
            IF ytd_target > 0
            THEN calculate_achievement_rate(ytd_actual, ytd_target).value
            ELSE NULL
    IN [ytd_actual |-> IF include_ytd THEN ytd_actual ELSE NULL,
        ytd_target |-> IF include_ytd THEN ytd_target ELSE NULL,
        achievement_rate |->
            IF achievement_rate # NULL /\ achievement_rate # 0
            THEN achievement_rate ELSE NULL]

-----------------------------------------------------------------------------
(* period_utils: the same period one and two years earlier *)

NoDate == <<0, 0, 0>>
RangeRaised == [raised |-> TRUE, start |-> NoDate, end |-> NoDate]

get_previous_year_range(start_date, end_date) ==
    LET prev_end ==
            IF ValidDate(end_date[1] - 1, end_date[2], end_date[3])
            THEN <<end_date[1] - 1, end_date[2], end_date[3]>>
            ELSE <<end_date[1] - 1, end_date[2], monthrange(end_date[1] - 1, end_date[2])>>
    IN IF ~ValidDate(start_date[1] - 1, start_date[2], start_date[3])
       THEN RangeRaised
       ELSE [raised |-> FALSE,
             start |-> <<start_date[1] - 1, start_date[2], start_date[3]>>,
             end |-> prev_end]

get_two_years_ago_range(start_date, end_date) ==
    LET prev2_end ==
            IF ValidDate(end_date[1] - 2, end_date[2], end_date[3])
            THEN <<end_date[1] - 2, end_date[2], end_date[3]>>
            ELSE <<end_date[1] - 2, end_date[2], monthrange(end_date[1] - 2, end_date[2])>>
    IN IF ~ValidDate(start_date[1] - 2, start_date[2], start_date[3])
       THEN RangeRaised
       ELSE [raised |-> FALSE,
             start |-> <<start_date[1] - 2, start_date[2], start_date[3]>>,
             end |-> prev2_end]

CalcIdle == [fn |-> "none", args |-> <<>>, out |-> <<>>]

-----------------------------------------------------------------------------
(* regional_service.get_regional_summary: stores rolled up into regions *)

MaxStores == 2

\* the name of the region that collects stores without a mapping ("sonota"
\* stands for the Japanese name compared at regional_service.py:397)
OtherRegionName == "sonota"
\* region_id when no region carries that name (Python None)
NoRegion == "None"

StoreIds == {"s1", "s2", "s3"}
StoreSeq == <<"s1", "s2", "s3">>
\* the segments of the department, in the order the query returns them
StoreLists == {SubSeq(StoreSeq, 1, n) : n \in 0..MaxStores}
\* the regions table, ordered by display_order
RegionLists ==
    {<<>>,
     <<[id |-> "r1", name |-> "miyakonojo"]>>,
     <<[id |-> "r9", name |-> OtherRegionName]>>,
     <<[id |-> "r1", name |-> "miyakonojo"], [id |-> "r9", name |-> OtherRegionName]>>}
SalesValues == {0, 100}
CustomerValues == {0, 10}

SeqRange(s) == {s[i] : i \in 1..Len(s)}
RegionIds(regions) == {regions[i].id : i \in 1..Len(regions)}
\* store_region_mapping rows of the department's segments
Mappings(segments, regions) ==
    UNION {[D -> RegionIds(regions)] : D \in SUBSET SeqRange(segments)}

\* unassigned_region_id: the id of the first region with the fallback name
UnassignedRegionId(regions) ==
    LET named == {i \in 1..Len(regions) : regions[i].name = OtherRegionName}
    IN IF named = {} THEN NoRegion
       ELSE regions[CHOOSE i \in named : \A j \in named : i <= j].id

\* segment_to_region.get(seg_id, unassigned_region_id)
RegionOf(seg_id, segment_to_region, regions) ==
    IF seg_id \in DOMAIN segment_to_region
    THEN segment_to_region[seg_id]
    ELSE UnassignedRegionId(regions)

RECURSIVE SumStores(_, _)
SumStores(stores, amount) ==
    IF stores = <<>> THEN 0 ELSE amount[Head(stores)] + SumStores(Tail(stores), amount)

\* x if x > 0 else None
PositiveOrNone(x) == IF x > 0 THEN x ELSE NULL

\* regional_data[region_id]: stores placed in the region and its running totals
RegionalData(region, segments, segment_to_region, regions, store_sales, store_customers) ==
    LET placed == SelectSeq(segments,
                     LAMBDA s : RegionOf(s, segment_to_region, regions) = region.id)
    IN [region_id |-> region.id,
        region_name |-> region.name,
        stores |-> [i \in 1..Len(placed) |->
                      [segment_id |-> placed[i],
                       sales |-> PositiveOrNone(store_sales[placed[i]]),
                       customers |-> PositiveOrNone(store_customers[placed[i]])]],
        total_sales |-> SumStores(placed, store_sales),
        total_customers |-> SumStores(placed, store_customers)]

\* result_regions: regions without stores are skipped
RECURSIVE ResultRegions(_, _, _, _, _, _)
ResultRegions(rest, segments, segment_to_region, regions, store_sales, store_customers) ==
    IF rest = <<>> THEN <<>>
    ELSE LET rd == RegionalData(Head(rest), segments, segment_to_region, regions,
                                store_sales, store_customers)
             tail == ResultRegions(Tail(rest), segments, segment_to_region, regions,
                                   store_sales, store_customers)
         IN IF rd.stores = <<>> THEN tail
            ELSE <<[region_id |-> rd.region_id,
                    region_name |-> rd.region_name,
                    total_sales |-> PositiveOrNone(rd.total_sales),
                    total_customers |-> PositiveOrNone(rd.total_customers),
                    stores |-> rd.stores]>> \o tail

\* None -> 0, for adding up reported figures
Figure(x) == IF x = NULL THEN 0 ELSE x

RECURSIVE SumField(_, _)
SumField(rows, field) ==
    IF rows = <<>> THEN 0 ELSE Figure(Head(rows)[field]) + SumField(Tail(rows), field)

NoGrandTotal == [present |-> FALSE, total_sales |-> NULL, total_customers |-> NULL]

get_regional_summary(segments, regions, segment_to_region, store_sales, store_customers) ==
    IF segments = <<>> THEN [regions |-> <<>>, grand_total |-> NoGrandTotal]
    ELSE LET result_regions == ResultRegions(regions, segments, segment_to_region,
                                             regions, store_sales, store_customers)
             grand_total_sales == SumField(result_regions, "total_sales")
             grand_total_customers == SumField(result_regions, "total_customers")
         IN [regions |-> result_regions,
             grand_total |->
                 IF grand_total_sales > 0
                 THEN [present |-> TRUE,
                       total_sales |-> grand_total_sales,
                       total_customers |-> PositiveOrNone(grand_total_customers)]
                 ELSE NoGrandTotal]

RegionalIdle ==
    [called |-> FALSE, segments |-> <<>>, regions |-> <<>>, segment_to_region |-> <<>>,
     store_sales |-> <<>>, store_customers |-> <<>>,
     out |-> [regions |-> <<>>, grand_total |-> NoGrandTotal]]

-----------------------------------------------------------------------------
(* cache_service: the TTL cache, the cached dashboard report, and the       *)
(* financial_data write path                                                *)

MaxNow == 602

\* ttl of @cached(prefix="dashboard", ttl=300)
DashboardTtl == 300

\* seconds that pass between two requests
Elapsed == {100, 301}
\* months of 2024 asked of the dashboard and written by the import
ReportMonths == {9, 10}
SalesTotals == {100, 200}
FinKeys == ReportMonths \X {FALSE}

\* hashlib.md5(key_data).hexdigest() for the key data of
\* get_dashboard_data(period_type="monthly", year=2024, month=month, quarter=None),
\* as a sequence of characters
generate_key(prefix, month) ==
    IF prefix = "dashboard" /\ month = 9
    THEN <<"a","e","1","0","2","d","e","b","e","4","1","c","1","7","a","d",
           "a","8","b","6","4","b","2","0","4","6","3","4","4","0","a","7">>
    ELSE IF prefix = "dashboard" /\ month = 10
    THEN <<"7","0","9","7","8","c","d","e","a","b","4","7","5","d","b","a",
           "2","3","e","7","b","0","c","0","4","8","9","3","4","f","c","f">>
    ELSE <<>>

\* prefixes given to the cache-clear endpoint; the empty one clears everything
ClearPrefixes ==
    {<<>>, <<"d","a","s","h","b","o","a","r","d">>, <<"a","e">>}

\* k.startswith(prefix)
StartsWith(k, prefix) == Len(prefix) <= Len(k) /\ SubSeq(k, 1, Len(prefix)) = prefix

\* None as a report value
NoReport == [present |-> FALSE, sales_total |-> NULL]

EmptyCache == [k \in {} |-> NoReport]

CacheRemove(c, keys) == [k \in DOMAIN c \ keys |-> c[k]]

\* CacheService.get: the value and the cache it leaves (an expired entry is deleted)
CacheGet(c, key, t) ==
    IF key \notin DOMAIN c THEN [value |-> NoReport, cache |-> c]
    ELSE IF t > c[key].expires_at
         THEN [value |-> NoReport, cache |-> CacheRemove(c, {key})]
         ELSE [value |-> c[key].value, cache |-> c]

\* CacheService.set
CacheSet(c, key, value, ttl, t) ==
    [k \in DOMAIN c \cup {key} |->
        IF k = key
        THEN [value |-> value, expires_at |-> t + ttl, created_at |-> t]
        ELSE c[k]]

\* CacheService.clear_prefix
clear_prefix(c, prefix) ==
    CacheRemove(c, {k \in DOMAIN c : StartsWith(k, prefix)})

\* the body of get_dashboard_data: the report computed from the tables
get_dashboard_data(fd, month) ==
    [present |-> TRUE, sales_total |-> fd[<<month, FALSE>>]]

NoFinancialData == [k \in FinKeys |-> NULL]
NoServed == [month |-> 0, hit |-> FALSE, value |-> NoReport, fresh |-> NoReport]

-----------------------------------------------------------------------------
(* The kpi_values table as the persistence service presents it *)

Key(r) == <<r.segment_id, r.kpi_id, r.date, r.is_target>>

Row(id, data) ==
    [id |-> id, segment_id |-> data.segment_id, kpi_id |-> data.kpi_id,
     date |-> data.date, value |-> data.value, is_target |-> data.is_target]

\* select("id").eq(segment_id).eq(kpi_id).eq(date).eq(is_target): ids of the matching rows
Select(tbl, segment_id, kpi_id, date, is_target) ==
    {r.id : r \in {x \in tbl : /\ x.segment_id = segment_id
                               /\ x.kpi_id = kpi_id
                               /\ x.date = date
                               /\ x.is_target = is_target}}

\* the table without its unique constraint: no write is ever rejected
UniqueViolationNone(tbl, id, data) == FALSE

\* The unique constraint (segment_id, kpi_id, date, is_target): a write that would
\* leave two rows with one composite identity is rejected.
UniqueViolation(tbl, id, data) ==
    \E r \in tbl : r.id # id /\ Key(r) = Key(data)

\* insert(data).execute(): raises on a constraint violation, else returns the new row
Insert(tbl, nid, data) ==
    IF UniqueViolation(tbl, nid, data)
    THEN [raised |-> TRUE, tbl |-> tbl, nid |-> nid, data |-> {}]
    ELSE [raised |-> FALSE, tbl |-> tbl \cup {Row(nid, data)}, nid |-> nid + 1,
          data |-> {nid}]

\* update(data).eq("id", id).execute(): returns the rows it updated (none if id is gone)
Update(tbl, nid, id, data) ==
    LET hit == {r \in tbl : r.id = id}
    IN IF hit # {} /\ UniqueViolation(tbl, id, data)
       THEN [raised |-> TRUE, tbl |-> tbl, nid |-> nid, data |-> {}]
       ELSE [raised |-> FALSE,
             tbl |-> (tbl \ hit) \cup {Row(r.id, data) : r \in hit},
             nid |-> nid, data |-> {r.id : r \in hit}]

\* existing.data[0]["id"]
FirstId(ids) == CHOOSE i \in ids : \A j \in ids : i <= j

NoRet == [kind |-> "none", id |-> 0, is_created |-> FALSE]
RaisedRet == [kind |-> "raised", id |-> 0, is_created |-> FALSE]

-----------------------------------------------------------------------------
(* kpi_service.get_product_matrix: stores x product groups *)

MaxMatrixStores == 2
MaxProductKpis == 2
MaxFactRows == 2

ProductKpiSeq == <<"k1", "k2", "k3">>
\* the visible product-group KPI definitions, by display_order
ProductKpiLists == {SubSeq(ProductKpiSeq, 1, n) : n \in 0..MaxProductKpis}
\* the segments of the department, by code
MatrixStoreLists == {SubSeq(StoreSeq, 1, n) : n \in 0..MaxMatrixStores}
MatrixMonths == {<<2024, 10, 1>>}
PeriodTypes == {"monthly", "cumulative"}
\* actual rows that may be in the fact table (negative sales are imported
\* with a warning only)
MatrixRows ==
    [segment_id : {"s1", "s2"}, kpi_id : {"k1"},
     date : {<<2024, 10, 1>>, <<2024, 9, 1>>, <<2023, 10, 1>>, <<2022, 10, 1>>},
     value : {100, 0 - 50}, is_target : {FALSE}]
\* fact tables of up to MaxFactRows rows, one row per identity
MatrixTables ==
    {t \in UNION {{{f[i] : i \in 1..n} : f \in [1..n -> MatrixRows]} : n \in 0..MaxFactRows} :
        \A r1, r2 \in t : Key(r1) = Key(r2) => r1 = r2}

get_previous_year_month(target_date) == <<target_date[1] - 1, target_date[2], 1>>

\* the first day of the following month
NextMonth(d) == IF d[2] = 12 THEN <<d[1] + 1, 1, 1>> ELSE <<d[1], d[2] + 1, 1>>

\* current_months: the months from fiscal_start to target_month
RECURSIVE MonthsThrough(_, _)
MonthsThrough(current_date, target_month) ==
    IF DateLE(current_date, target_month)
    THEN {current_date} \cup MonthsThrough(NextMonth(current_date), target_month)
    ELSE {}

\* one batched read of kpi_values: .in_(kpi_id).in_(segment_id).in_(date).eq(is_target, False)
FactRead(kpi_ids, segment_ids, dates) ==
    [table |-> "kpi_values", kpi_ids |-> kpi_ids, segment_ids |-> segment_ids,
     dates |-> dates]

\* what such a read returns
FactQuery(table, read) ==
    {r \in table : /\ r.kpi_id \in read.kpi_ids
                   /\ r.segment_id \in read.segment_ids
                   /\ r.date \in read.dates
                   /\ ~r.is_target}

\* one read per segment and year
FactReadsPerSegment(is_cumulative, kpi_ids, segments, current_months, prev_months, two_months) ==
    [i \in 1..Len(segments) |-> FactRead(kpi_ids, {segments[i]}, current_months)]
    \o [i \in 1..Len(segments) |-> FactRead(kpi_ids, {segments[i]}, prev_months)]
    \o [i \in 1..Len(segments) |-> FactRead(kpi_ids, {segments[i]}, two_months)]

\* the reads of the fact table issued by one request: current, previous year
\* and (cumulative only) two years ago
FactReads(is_cumulative, kpi_ids, segments, current_months, prev_months, two_months) ==
    IF is_cumulative
    THEN <<FactRead(kpi_ids, SeqRange(segments), current_months),
           FactRead(kpi_ids, SeqRange(segments), prev_months),
           FactRead(kpi_ids, SeqRange(segments), two_months)>>
    ELSE <<FactRead(kpi_ids, SeqRange(segments), current_months),
           FactRead(kpi_ids, SeqRange(segments), prev_months)>>

RECURSIVE SumValues(_)
SumValues(rows) ==
    IF rows = {} THEN 0
    ELSE LET r == CHOOSE x \in rows : TRUE IN r.value + SumValues(rows \ {r})

\* current_map[seg_id].get(kpi_id): None when no row was read for the cell
MapGet(values, seg_id, kpi_id) ==
    LET cell == {r \in values : r.segment_id = seg_id /\ r.kpi_id = kpi_id}
    IN IF cell = {} THEN NULL ELSE SumValues(cell)

\* x if x else None (None and zero both give None)
TruthyOrNone(x) == IF x = NULL \/ x = 0 THEN NULL ELSE x

\* yoy_rate of a cell: computed only against a positive base
CellYoy(actual, base) ==
    IF base # NULL /\ base > 0 THEN calculate_yoy_rate(actual, base).value ELSE NULL

\* actual, prev_year, two_years of one cell as the loop reads them from the maps
RawCell(current_values, prev_values, two_values, is_cumulative, seg_id, kpi_id) ==
    LET got == MapGet(current_values, seg_id, kpi_id)
    IN [actual |-> IF got = NULL THEN 0 ELSE got,
        prev_year |-> MapGet(prev_values, seg_id, kpi_id),
        two_years |-> IF is_cumulative THEN MapGet(two_values, seg_id, kpi_id) ELSE NULL]

\* products[kpi_name] of one store
MatrixCell(raw, is_cumulative) ==
    [actual |-> TruthyOrNone(raw.actual),
     previous_year |-> TruthyOrNone(raw.prev_year),
     yoy_rate |-> TruthyOrNone(CellYoy(raw.actual, raw.prev_year)),
     two_years_ago |-> TruthyOrNone(raw.two_years),
     yoy_rate_two_years |->
         TruthyOrNone(IF is_cumulative THEN CellYoy(raw.actual, raw.two_years) ELSE NULL)]

\* total += x, and for the earlier years: if x: total += x
RECURSIVE SumRaw(_, _, _)
SumRaw(ids, raw, field) ==
    IF ids = <<>> THEN 0
    ELSE Figure(raw[Head(ids)][field]) + SumRaw(Tail(ids), raw, field)

\* stores_data entry of one segment
MatrixStore(current_values, prev_values, two_values, is_cumulative, seg_id, kpis) ==
    LET raw == [k \in SeqRange(kpis) |->
                   RawCell(current_values, prev_values, two_values, is_cumulative,
                           seg_id, k)]
    IN [segment_id |-> seg_id,
        products |-> [k \in SeqRange(kpis) |-> MatrixCell(raw[k], is_cumulative)],
        total |-> SumRaw(kpis, raw, "actual"),
        total_previous_year |->
            IF is_cumulative THEN TruthyOrNone(SumRaw(kpis, raw, "prev_year")) ELSE NULL,
        total_two_years_ago |->
            IF is_cumulative THEN TruthyOrNone(SumRaw(kpis, raw, "two_years")) ELSE NULL]

\* previous_year / two_years_ago of totals_result: shown only when positive
ShownTotal(x) == IF x > 0 THEN x ELSE NULL

\* totals_result[name]: the running totals of one product group over the segments
MatrixTotal(current_values, prev_values, two_values, is_cumulative, segments, kpi_id) ==
    LET raw == [s \in SeqRange(segments) |->
                   RawCell(current_values, prev_values, two_values, is_cumulative,
                           s, kpi_id)]
        actual == SumRaw(segments, raw, "actual")
        prev_year == SumRaw(segments, raw, "prev_year")
        two_years == SumRaw(segments, raw, "two_years")
    IN [actual |-> TruthyOrNone(actual),
        previous_year |-> ShownTotal(prev_year),
        yoy_rate |-> TruthyOrNone(IF prev_year > 0
                                  THEN calculate_yoy_rate(actual, prev_year).value
                                  ELSE NULL),
        two_years_ago |-> IF is_cumulative THEN ShownTotal(two_years) ELSE NULL,
        yoy_rate_two_years |->
            TruthyOrNone(IF is_cumulative /\ two_years > 0
                         THEN calculate_yoy_rate(actual, two_years).value
                         ELSE NULL)]

NoMatrixOut == [stores |-> <<>>, totals |-> <<>>]

\* the request: the reads it issues, in order, and the response
get_product_matrix(table, kpis, segments, target_date, period_type) ==
    LET target_month == normalize_to_month_start(target_date)
        fiscal_year == get_fiscal_year(target_month)
        previous_month == get_previous_year_month(target_month)
        is_cumulative == period_type = "cumulative"
        kpi_read == [table |-> "kpi_definitions"]
        segment_read == [table |-> "segments"]
        current_months == IF is_cumulative
                          THEN MonthsThrough(<<fiscal_year, 9, 1>>, target_month)
                          ELSE {target_month}
        prev_months == IF is_cumulative
                       THEN {get_previous_year_month(m) : m \in current_months}
                       ELSE {previous_month}
        two_years_ago_months == {<<m[1] - 2, m[2], 1>> : m \in current_months}
        fact_reads == FactReads(is_cumulative, SeqRange(kpis), segments, current_months,
                                prev_months, two_years_ago_months)
        current_values == FactQuery(table, fact_reads[1])
        prev_values == FactQuery(table, fact_reads[2])
        two_values == IF is_cumulative THEN FactQuery(table, fact_reads[3]) ELSE {}
    IN IF kpis = <<>> THEN [reads |-> <<kpi_read>>, out |-> NoMatrixOut]
       ELSE IF segments = <<>>
       THEN [reads |-> <<kpi_read, segment_read>>, out |-> NoMatrixOut]
       ELSE [reads |-> <<kpi_read, segment_read>> \o fact_reads,
             out |-> [stores |-> [i \in 1..Len(segments) |->
                                    MatrixStore(current_values, prev_values, two_values,
                                                is_cumulative, segments[i], kpis)],
                      totals |-> [k \in SeqRange(kpis) |->
                                    MatrixTotal(current_values, prev_values, two_values,
                                                is_cumulative, segments, k)]]]

MatrixIdle ==
    [called |-> FALSE, table |-> {}, kpis |-> <<>>, segments |-> <<>>,
     target_month |-> NoDate, period_type |-> "monthly",
     reads |-> <<>>, out |-> NoMatrixOut]

\* the sum over a list of ids of amount(id), None counting as zero
RECURSIVE SumOver(_, _)
SumOver(ids, amount) ==
    IF ids = <<>> THEN 0
    ELSE Figure(amount[Head(ids)]) + SumOver(Tail(ids), amount)

-----------------------------------------------------------------------------
(* kpi_service.get_department_summary: the figures of one KPI *)

\* metrics.get_alert_level, the rate in hundredths of a percent
get_alert_level_strict(achievement_rate) ==
    IF achievement_rate = NULL THEN "none"
    ELSE IF achievement_rate >= 10000 THEN "none"
    ELSE IF achievement_rate >= 9000 THEN "warning"
    ELSE "critical"

\* the warning band without its lower end
get_alert_level_exclusive(achievement_rate) ==
    IF achievement_rate = NULL THEN "none"
    ELSE IF achievement_rate >= 10000 THEN "none"
    ELSE IF achievement_rate > 8000 THEN "warning"
    ELSE "critical"

get_alert_level(achievement_rate) ==
    IF achievement_rate = NULL THEN "none"
    ELSE IF achievement_rate >= 10000 THEN "none"
    ELSE IF achievement_rate >= 8000 THEN "warning"
    ELSE "critical"

SummaryKpi == "k1"
SummaryRowDates == {<<2024, 11, 1>>, <<2024, 9, 1>>, <<2023, 11, 1>>}
SummaryValues == {0, 100, 120}
\* fact rows of the department's segments
SummaryRows ==
    [kpi_id : {SummaryKpi}, date : SummaryRowDates, value : SummaryValues,
     is_target : BOOLEAN]
\* fiscal year 2024: an actual of 100 and a target of 120 for every month
\* from September 2024 to August 2025
FY2024Table ==
    [i \in 1..24 |->
        LET j == (i - 1) \div 2
        IN [kpi_id |-> SummaryKpi,
            date |-> <<(IF j < 4 THEN 2024 ELSE 2025), ((8 + j) % 12) + 1, 1>>,
            value |-> IF i % 2 = 1 THEN 100 ELSE 120,
            is_target |-> (i % 2 = 0)]]
SummaryTables ==
    UNION {[1..n -> SummaryRows] : n \in 0..MaxRows} \cup {FY2024Table}
SummaryMonths == {<<2024, 11, 1>>, <<2024, 11, 15>>}

\* the rows from the start of the fiscal year to the target month
SummaryValuesQuery(table, fiscal_start, target_month) ==
    SelectSeq(table, LAMBDA v : DateLE(fiscal_start, v.date) /\ DateLE(v.date, target_month))

\* the actual rows of the same month one year earlier
PrevYearQuery(table, previous_month) ==
    SelectSeq(table, LAMBDA v : v.date = previous_month /\ ~v.is_target)

\* sum(Decimal(str(v["value"])) for v in rows)
RECURSIVE SumRows(_)
SumRows(rows) ==
    IF rows = <<>> THEN 0 ELSE Head(rows).value + SumRows(Tail(rows))

\* float(x) if x else None
FloatOrNone(x) == IF x # NULL /\ x # 0 THEN x ELSE NULL

KpiSummary(table, kpi_id, month, include_ytd) ==
    LET target_month == normalize_to_month_start(month)
        fiscal_year == get_fiscal_year(target_month)
        previous_month == get_previous_year_month(target_month)
        fiscal_start == get_fiscal_year_range(fiscal_year)[1]
        all_values == SummaryValuesQuery(table, fiscal_start, target_month)
        prev_year_values == PrevYearQuery(table, previous_month)
        kpi_rows == SelectSeq(all_values, LAMBDA v : v.kpi_id = kpi_id)
        kpi_prev_values == SelectSeq(prev_year_values, LAMBDA v : v.kpi_id = kpi_id)
        monthly_actual ==
            SumRows(SelectSeq(kpi_rows,
                              LAMBDA v : v.date = target_month /\ ~v.is_target))
        monthly_target ==
            SumRows(SelectSeq(kpi_rows,
                              LAMBDA v : v.date = target_month /\ v.is_target))
        ytd_actual == IF include_ytd THEN calculate_ytd(kpi_rows, target_month, FALSE)
                      ELSE 0
        ytd_target == IF include_ytd THEN calculate_ytd(kpi_rows, target_month, TRUE)
                      ELSE 0
        prev_year_actual == SumRows(kpi_prev_values)
        achievement_rate ==
            IF ytd_target > 0
            THEN calculate_achievement_rate(ytd_actual, ytd_target).value
            ELSE NULL
        yoy_rate ==
            IF prev_year_actual > 0
            THEN calculate_yoy_rate(monthly_actual, prev_year_actual).value
            ELSE NULL
        alert_level == get_alert_level(achievement_rate)
    IN [actual |-> FloatOrNone(monthly_actual),
        target |-> FloatOrNone(monthly_target),
        ytd_actual |-> IF include_ytd THEN ytd_actual ELSE NULL,
        ytd_target |-> IF include_ytd THEN ytd_target ELSE NULL,
        achievement_rate |-> FloatOrNone(achievement_rate),
        yoy_rate |-> FloatOrNone(yoy_rate),
        alert_level |-> alert_level]

-----------------------------------------------------------------------------
(* dashboard_service._get_aggregated_financial_data *)

MaxFinMonths == 2

\* the monthly rows of financial_data (actuals), the rates as stored, in
\* hundredths of a percent; row i of a table is the row of month i
FinRows ==
    [sales_total : {NULL, 100, 300}, gross_profit : {NULL, 0, 50},
     labor_cost : {20}, operating_profit : {0 - 30},
     gross_profit_rate : {1000, 9000}, labor_cost_rate : {2240},
     operating_profit_rate : {1970}]
FinTables == UNION {[1..n -> FinRows] : n \in 0..MaxFinMonths}
FinMonths == 1..(MaxFinMonths + 1)

\* the rows with start_date <= month <= end_date
FinQuery(table, start_date, end_date) ==
    LET last == IF end_date < Len(table) THEN end_date ELSE Len(table)
    IN SubSeq(table, start_date, last)

\* total and has_value of one field over the rows of the response
RECURSIVE FinTotal(_, _)
FinTotal(rows, field) ==
    IF rows = <<>> THEN 0
    ELSE (IF Head(rows)[field] # NULL THEN Head(rows)[field] ELSE 0)
         + FinTotal(Tail(rows), field)

FinHasValue(rows, field) == \E i \in 1..Len(rows) : rows[i][field] # NULL

FinSum(rows, field) == IF FinHasValue(rows, field) THEN FinTotal(rows, field) ELSE NULL

NoFinRates ==
    [gross_profit_rate |-> NULL, labor_cost_rate |-> NULL, operating_profit_rate |-> NULL]
\* return {}
NoFinResult ==
    [sales_total |-> NULL, gross_profit |-> NULL, labor_cost |-> NULL,
     operating_profit |-> NULL] @@ NoFinRates

\* value / sales_total * 100, quantized to 0.01, when value is truthy
FinRate(value, sales_total) ==
    IF value # NULL /\ value # 0 THEN RoundHalfUp(value * 10000, sales_total) ELSE NULL

\* the sums of the window with the rates of its latest month
AggregateLatestRates(data) ==
    IF data = <<>> THEN NoFinResult
    ELSE [sales_total |-> FinSum(data, "sales_total"),
          gross_profit |-> FinSum(data, "gross_profit"),
          labor_cost |-> FinSum(data, "labor_cost"),
          operating_profit |-> FinSum(data, "operating_profit"),
          gross_profit_rate |-> data[Len(data)].gross_profit_rate,
          labor_cost_rate |-> data[Len(data)].labor_cost_rate,
          operating_profit_rate |-> data[Len(data)].operating_profit_rate]

\* data is response.data; a key that is not set reads as None
AggregateFinancialData(data) ==
    IF data = <<>> THEN NoFinResult
    ELSE LET sums == [sales_total |-> FinSum(data, "sales_total"),
                      gross_profit |-> FinSum(data, "gross_profit"),
                      labor_cost |-> FinSum(data, "labor_cost"),
                      operating_profit |-> FinSum(data, "operating_profit")]
         IN IF sums.sales_total # NULL /\ sums.sales_total > 0
            THEN sums @@
                 [gross_profit_rate |-> FinRate(sums.gross_profit, sums.sales_total),
                  labor_cost_rate |-> FinRate(sums.labor_cost, sums.sales_total),
                  operating_profit_rate |->
                      FinRate(sums.operating_profit, sums.sales_total)]
            ELSE sums @@ NoFinRates

get_aggregated_financial_data(table, start_date, end_date) ==
    AggregateFinancialData(FinQuery(table, start_date, end_date))

-----------------------------------------------------------------------------
(* kpi_service.get_available_months *)

NoDepartment == "none"
\* "d1" has the segment "s1"; "d0" has no segment
DepartmentIds == {NoDepartment, "d1", "d0"}
DepartmentSegments == [d \in {"d1", "d0"} |-> IF d = "d1" THEN {"s1"} ELSE {}]
MonthRows == [segment_id : {"s1", "s2"}, date : {<<2024, 9, 1>>, <<2024, 10, 1>>}]
\* the read that the persistence service fails, if any
ReadFaults == {"none", "segments", "kpi_values"}

\* sorted(list(months_set), reverse=True)
RECURSIVE SortedDescending(_)
SortedDescending(months_set) ==
    IF months_set = {} THEN <<>>
    ELSE LET latest == CHOOSE m \in months_set : \A o \in months_set : DateLE(o, m)
         IN <<latest>> \o SortedDescending(months_set \ {latest})

MonthsReturned(months) == [raised |-> FALSE, months |-> months]
MonthsRaised == [raised |-> TRUE, months |-> <<>>]

\* the body of the try block: raised when a read fails
AvailableMonthsBody(table, department_id, fault) ==
    IF department_id # NoDepartment /\ fault = "segments" THEN MonthsRaised
    ELSE IF fault = "kpi_values" THEN MonthsRaised
    ELSE LET segment_ids == IF department_id # NoDepartment
                            THEN DepartmentSegments[department_id] ELSE {}
             data == IF segment_ids # {}
                     THEN {row \in table : row.segment_id \in segment_ids}
                     ELSE table
         IN MonthsReturned(SortedDescending({row.date : row \in data}))

\* except Exception: return []
get_available_months(table, department_id, fault) ==
    LET body == AvailableMonthsBody(table, department_id, fault)
    IN IF body.raised THEN MonthsReturned(<<>>) ELSE body

-----------------------------------------------------------------------------
(* The fiscal year of a date in period_utils and financial_import_service *)

FISCAL_YEAR_START_MONTH == 9

period_utils_get_fiscal_year(target_date) ==
    IF target_date[2] >= FISCAL_YEAR_START_MONTH THEN target_date[1]
    ELSE target_date[1] - 1

calculate_fiscal_year(target_date) ==
    IF target_date[2] >= 9 THEN target_date[1] ELSE target_date[1] - 1

\* every calendar date of three years, one of them a leap year
FiscalDates ==
    {d \in (2023..2025) \X (1..12) \X (1..31) : ValidDate(d[1], d[2], d[3])}

-----------------------------------------------------------------------------
(* period_utils: quarters of the fiscal year *)

\* the quarter of the calendar year
get_quarter_calendar(month) == (month - 1) \div 3 + 1

get_quarter(month) ==
    LET fiscal_month == ((month - FISCAL_YEAR_START_MONTH) % 12) + 1
    IN (fiscal_month - 1) \div 3 + 1

\* quarter_to_months.get(quarter, (9, 10, 11))
get_quarter_months(quarter) ==
    IF quarter = 1 THEN <<9, 10, 11>>
    ELSE IF quarter = 2 THEN <<12, 1, 2>>
    ELSE IF quarter = 3 THEN <<3, 4, 5>>
    ELSE IF quarter = 4 THEN <<6, 7, 8>>
    ELSE <<9, 10, 11>>

-----------------------------------------------------------------------------
(* regional_service.get_regional_summary: the sales targets of the regions *)

TargetSalesValues == {0, 500}
\* store_target_sales: the summed sales targets of the stores that have target rows
StoreTargets(segments) ==
    UNION {[D -> TargetSalesValues] : D \in SUBSET SeqRange(segments)}

\* regional_target_sales.get(region_id): the targets of the stores that
\* segment_to_region maps to the region, None when there is none
RegionalTargetSales(region_id, segments, segment_to_region, store_target_sales) ==
    LET counted == SelectSeq(segments,
                       LAMBDA s : /\ s \in DOMAIN store_target_sales
                                  /\ s \in DOMAIN segment_to_region
                                  /\ segment_to_region[s] = region_id)
    IN IF counted = <<>> THEN NULL ELSE SumStores(counted, store_target_sales)

\* the stores listed under each region of the result and its target_sales
RECURSIVE RegionTargets(_, _, _, _, _)
RegionTargets(rest, segments, segment_to_region, regions, store_target_sales) ==
    IF rest = <<>> THEN <<>>
    ELSE LET region == Head(rest)
             placed == SelectSeq(segments,
                          LAMBDA s : RegionOf(s, segment_to_region, regions) = region.id)
             tail == RegionTargets(Tail(rest), segments, segment_to_region, regions,
                                   store_target_sales)
         IN IF placed = <<>> THEN tail
            ELSE <<[region_id |-> region.id,
                    stores |-> placed,
                    target_sales |-> RegionalTargetSales(region.id, segments,
                                         segment_to_region, store_target_sales)]>>
                 \o tail

-----------------------------------------------------------------------------
(* period_utils.get_period_range and the default period of the dashboard *)

PeriodRangeTypes == {"monthly", "quarterly", "yearly"}

_get_monthly_range(year, month) ==
    <<(<<year, month, 1>>), (<<year, month, monthrange(year, month)>>)>>

_get_quarterly_range(fiscal_year, quarter) ==
    LET months == get_quarter_months(quarter)
        start_year == IF quarter \in {1, 2} THEN fiscal_year ELSE fiscal_year + 1
        end_year == IF quarter = 1 THEN fiscal_year ELSE fiscal_year + 1
    IN <<(<<start_year, months[1], 1>>),
         (<<end_year, months[3], monthrange(end_year, months[3])>>)>>

_get_yearly_range(fiscal_year) ==
    LET end_year == fiscal_year + 1
        end_month == FISCAL_YEAR_START_MONTH - 1
    IN <<(<<fiscal_year, FISCAL_YEAR_START_MONTH, 1>>),
         (<<end_year, end_month, monthrange(end_year, end_month)>>)>>

get_period_range(period_type, year, month, quarter) ==
    IF period_type = "monthly" THEN _get_monthly_range(year, month)
    ELSE IF period_type = "quarterly" THEN _get_quarterly_range(year, quarter)
    ELSE IF period_type = "yearly" THEN _get_yearly_range(year)
    ELSE _get_monthly_range(year, month)

\* (fiscal_year, current_month, current_quarter) of date.today()
get_current_period_defaults(today) ==
    <<period_utils_get_fiscal_year(today), today[2], get_quarter(today[2])>>

\* the period of get_dashboard_data called without year, month and quarter
DefaultDashboardPeriod(period_type, today) ==
    LET defaults == get_current_period_defaults(today)
    IN get_period_range(period_type, defaults[1], defaults[2], defaults[3])

-----------------------------------------------------------------------------
(* middleware/rate_limiter.py: RateLimitMiddleware *)

\* security_config.RATE_LIMIT_REQUESTS and RATE_LIMIT_WINDOW, scaled down
max_requests == 2
window_seconds == 2
\* the last value of time.time()
MaxTime == 3

ClientIps == {"10.0.0.1", "10.0.0.2"}
ExemptPaths == {"/health", "/", "/docs", "/redoc", "/openapi.json"}
RequestPaths == {"/health", "/api/v1/kpi"}

\* defaultdict(list)
NoRequests == [client_ip \in ClientIps |-> <<>>]

NoDispatch == [client_ip |-> "", path |-> "", status |-> 0, in_window |-> 0]

LimiterIdle ==
    [time |-> 0, admitted |-> NoRequests, rejected |-> {}, last |-> NoDispatch]

\* a variant of _is_allowed that records the request before the limit check
_is_allowed_recording(reqs, client_ip, current_time) ==
    LET window_start == current_time - window_seconds
        kept == SelectSeq(reqs[client_ip], LAMBDA req_time : req_time > window_start)
    IN [requests |-> [reqs EXCEPT ![client_ip] = Append(kept, current_time)],
        allowed |-> Len(kept) < max_requests]

_is_allowed(reqs, client_ip, current_time) ==
    LET window_start == current_time - window_seconds
        kept == SelectSeq(reqs[client_ip], LAMBDA req_time : req_time > window_start)
    IN IF Len(kept) >= max_requests
       THEN [requests |-> [reqs EXCEPT ![client_ip] = kept], allowed |-> FALSE]
       ELSE [requests |-> [reqs EXCEPT ![client_ip] = Append(kept, current_time)],
             allowed |-> TRUE]

\* the number of the timestamps of times that lie in the window (t - window_seconds, t]
InWindow(times, t) ==
    Cardinality({i \in DOMAIN times : times[i] > t - window_seconds /\ times[i] <= t})

dispatch(reqs, log, client_ip, path) ==
    IF path \in ExemptPaths
    THEN [requests |-> reqs,
          limiter |-> [log EXCEPT !.last = [client_ip |-> client_ip, path |-> path,
                                           status |-> 200, in_window |-> 0]]]
    ELSE LET r == _is_allowed(reqs, client_ip, log.time)
             last == [client_ip |-> client_ip, path |-> path,
                      status |-> IF r.allowed THEN 200 ELSE 429,
                      in_window |-> InWindow(log.admitted[client_ip], log.time)]
         IN [requests |-> r.requests,
             limiter |-> IF r.allowed
                         THEN [log EXCEPT !.admitted[client_ip] = Append(@, log.time),
                                          !.last = last]
                         ELSE [log EXCEPT !.rejected = @ \cup {client_ip},
                                          !.last = last]]

-----------------------------------------------------------------------------
(* the fiscal_year of the financial_data rows of the two write paths *)

FinancialWriteMonths ==
    {<<year, month, day>> : year \in 2023..2024, month \in 1..12, day \in {1, 15}}

\* target_service.save_financial_targets: summary_data
save_financial_targets(data_month) ==
    LET month == normalize_to_month_start(data_month)
        fiscal_year == IF month[2] >= 4 THEN month[1] ELSE month[1] - 1
    IN [month |-> month, fiscal_year |-> fiscal_year, is_target |-> TRUE]

\* financial_import_service.import_financial_data: record
import_financial_data(month, is_target) ==
    LET target_date == month
        fiscal_year == calculate_fiscal_year(target_date)
    IN [month |-> month, fiscal_year |-> fiscal_year, is_target |-> is_target]

-----------------------------------------------------------------------------
(* target_service.create_target_value, after the lookup *)

TargetData(segment_id, kpi_id, month, value) ==
    [segment_id |-> segment_id, kpi_id |-> kpi_id,
     date |-> normalize_to_month_start(month), value |-> value, is_target |-> TRUE]

\* is_created set in the update branch as in the insert branch
IsCreatedAlways(found) == TRUE

\* is_created as create_target_value sets it in each branch
IsCreated(found) == found = {}

\* the branch on existing.data, the write, the check of response.data and the result
CreateTargetWrite(tbl, nid, found, data) ==
    LET resp == IF found # {} THEN Update(tbl, nid, FirstId(found), data)
                ELSE Insert(tbl, nid, data)
    IN [tbl |-> resp.tbl, nid |-> resp.nid,
        ret |-> IF resp.raised \/ resp.data = {}
                THEN RaisedRet
                ELSE [kind |-> "ok", id |-> FirstId(resp.data),
                      is_created |-> IsCreated(found)]]

\* the whole call, run without interruption
create_target_value(tbl, nid, segment_id, kpi_id, month, value) ==
    LET data == TargetData(segment_id, kpi_id, month, value)
    IN CreateTargetWrite(tbl, nid,
           Select(tbl, segment_id, kpi_id, data.date, TRUE), data)

(* import_service.upsert_kpi_value, after the lookup *)

KpiData(segment_id, kpi_id, target_date, value, is_target) ==
    [segment_id |-> segment_id, kpi_id |-> kpi_id,
     date |-> target_date, value |-> value, is_target |-> is_target]

UpsertKpiWrite(tbl, nid, found, data) ==
    LET resp == IF found # {} THEN Update(tbl, nid, FirstId(found), data)
                ELSE Insert(tbl, nid, data)
    IN [tbl |-> resp.tbl, nid |-> resp.nid,
        ret |-> IF resp.raised THEN RaisedRet
                ELSE [kind |-> IF resp.data # {} THEN "true" ELSE "false",
                      id |-> 0, is_created |-> FALSE]]

-----------------------------------------------------------------------------
(* target_service.update_target_value and delete_target_value, and the      *)
(* whole call of import_service.upsert_kpi_value                            *)

MaxSeriesIds == 3

SeriesDates == {<<2024, 9, 1>>}
TargetIds == 1..MaxSeriesIds

upsert_kpi_value(tbl, nid, segment_id, kpi_id, target_date, value, is_target) ==
    LET data == KpiData(segment_id, kpi_id, target_date, value, is_target)
    IN UpsertKpiWrite(tbl, nid,
           Select(tbl, segment_id, kpi_id, data.date, is_target), data)

\* the rows matched by eq("id", target_id) alone
RowsById(tbl, target_id) == {r \in tbl : r.id = target_id}

\* the rows matched by eq("id", target_id).eq("is_target", True)
TargetRowsById(tbl, target_id) == {r \in tbl : r.id = target_id /\ r.is_target}

\* update({"value": value}); raises when no row was updated
update_target_value(tbl, target_id, value) ==
    LET hit == TargetRowsById(tbl, target_id)
    IN [tbl |-> (tbl \ hit) \cup {[r EXCEPT !.value = value] : r \in hit},
        raised |-> hit = {}]

\* delete(); returns bool(response.data)
delete_target_value(tbl, target_id) ==
    LET hit == TargetRowsById(tbl, target_id)
    IN [tbl |-> tbl \ hit, deleted |-> hit # {}]

-----------------------------------------------------------------------------
(* import_service.import_store_kpi *)

MaxImportStores == 2
\* batch_size (500 in the code), scaled to the size of the model
BatchSize == 2

ImportPeriod == <<2024, 9, 1>>
\* the sales and customers figure of the stores of one file
ImportValues == {100, 200, 300}

\* kpi_records: a sales record and a customers record per store of the file
RECURSIVE KpiRecords(_, _)
KpiRecords(stores, value) ==
    IF stores = <<>> THEN <<>>
    ELSE <<KpiData(Head(stores), "sales", ImportPeriod, value, FALSE),
           KpiData(Head(stores), "customers", ImportPeriod, value, FALSE)>>
         \o KpiRecords(Tail(stores), value)

\* upsert(batch, on_conflict="segment_id,kpi_id,date,is_target"): a row with the
\* identity of the record is updated, else the record is inserted
RECURSIVE UpsertBatch(_, _, _)
UpsertBatch(tbl, nid, batch) ==
    IF batch = <<>> THEN [tbl |-> tbl, nid |-> nid]
    ELSE LET data == Head(batch)
             hit == {r \in tbl : Key(r) = Key(data)}
         IN IF hit # {}
            THEN UpsertBatch((tbl \ hit) \cup {Row(r.id, data) : r \in hit}, nid,
                             Tail(batch))
            ELSE UpsertBatch(tbl \cup {Row(nid, data)}, nid + 1, Tail(batch))

\* the loop over the batches from record i on; the execute() of batch number
\* fail raises and leaves that batch unwritten (0: no failure)
RECURSIVE UpsertBatches(_, _, _, _, _)
UpsertBatches(tbl, nid, kpi_records, i, fail) ==
    IF i > Len(kpi_records) THEN [tbl |-> tbl, nid |-> nid, raised |-> FALSE, written |-> 0]
    ELSE IF (i - 1) \div BatchSize + 1 = fail
         THEN [tbl |-> tbl, nid |-> nid, raised |-> TRUE, written |-> 0]
         ELSE LET last == IF i + BatchSize - 1 < Len(kpi_records)
                          THEN i + BatchSize - 1 ELSE Len(kpi_records)
                  w == UpsertBatch(tbl, nid, SubSeq(kpi_records, i, last))
                  rest == UpsertBatches(w.tbl, w.nid, kpi_records, i + BatchSize, fail)
              IN [rest EXCEPT !.written = @ + (last - i + 1)]

\* result["imported"]: set to len(kpi_records) once every batch went through
import_count(kpi_records, w) == IF w.raised THEN 0 ELSE Len(kpi_records)

import_store_kpi(tbl, nid, stores, value, fail) ==
    LET kpi_records == KpiRecords(stores, value)
        w == UpsertBatches(tbl, nid, kpi_records, 1, fail)
    IN IF stores = <<>>
       THEN [tbl |-> tbl, nid |-> nid, imported |-> 0, errors |-> 1, written |-> 0]
       ELSE [tbl |-> w.tbl, nid |-> w.nid,
             imported |-> import_count(kpi_records, w),
             errors |-> IF w.raised THEN 1 ELSE 0,
             written |-> w.written]

-----------------------------------------------------------------------------
(* bulk_upsert_targets: the result dictionary and its per-row bookkeeping *)

EmptyResult == [created_count |-> 0, updated_count |-> 0, errors |-> <<>>]

\* the try / except body of the loop, given the outcome of create_target_value
BulkRecord(result, segment_id, kpi_id, res) ==
    IF res.kind = "raised"
    THEN [result EXCEPT !.errors = Append(@, <<segment_id, kpi_id>>)]
    ELSE IF res.is_created
         THEN [result EXCEPT !.created_count = @ + 1]
         ELSE [result EXCEPT !.updated_count = @ + 1]

\* idle values of the concurrent clients' state
NoCall == [op |-> "none", segment_id |-> "s1", kpi_id |-> "k1",
           date |-> <<2024, 9, 1>>, value |-> 0, is_target |-> FALSE]
NoBulk == [active |-> FALSE, n |-> 0, result |-> EmptyResult]
AllKeys == Segments \X Kpis \X FactDates \X BOOLEAN

-----------------------------------------------------------------------------
(* The reconciliation client taken alone: bulk_upsert_targets row by row,   *)
(* the same request sent a second time, and direct create_target_value      *)
(* calls.  A row of a bulk request fails when the persistence service       *)
(* raises on it.                                                            *)

TargetRows ==
    {[segment_id |-> "s1", kpi_id |-> "k1", month |-> <<2024, 9, 1>>, value |-> 100],
     [segment_id |-> "s1", kpi_id |-> "k1", month |-> <<2024, 9, 15>>, value |-> 100],
     [segment_id |-> "s1", kpi_id |-> "k1", month |-> <<2024, 10, 1>>, value |-> 100],
     [segment_id |-> "s1", kpi_id |-> "k1", month |-> <<2024, 10, 1>>, value |-> 200]}

TargetLists == UNION {[1..n -> TargetRows] : n \in 0..MaxTargets}

NoTarget == [segment_id |-> "none", kpi_id |-> "none", month |-> <<0, 0, 0>>, value |-> 0]
NoCtv == [target |-> NoTarget, ret |-> NoRet, tbl |-> {}]
NoFirst == [tbl |-> {}, result |-> EmptyResult, failed |-> {}, created |-> {}]
NoResponse == [success |-> FALSE, created_count |-> 0, updated_count |-> 0, errors |-> <<>>]

ReconIdle ==
    [phase |-> "idle", targets |-> <<>>, idx |-> 1, result |-> EmptyResult,
     failed |-> {}, created |-> {}, round |-> 1, first |-> NoFirst,
     response |-> NoResponse, ctv |-> NoCtv, ctvPrev |-> NoCtv]

\* create_target_value for one target of the batch; an exception of the
\* persistence service leaves the table as it is
CreateTargetOutcome(tbl, nid, target, fault) ==
    IF fault THEN [tbl |-> tbl, nid |-> nid, ret |-> RaisedRet]
    ELSE create_target_value(tbl, nid, target.segment_id, target.kpi_id,
                             target.month, target.value)

\* a raise ends the loop: the rest of the batch is skipped
NextIndexAbort(idx, res, n) == IF res.kind = "raised" THEN n + 1 ELSE idx + 1

\* the for loop goes on to the next target whether the row raised or not
NextIndex(idx, res, n) == idx + 1

\* TargetValueBulkResponse as bulk_create_targets builds it
BulkResponse(result) ==
    [success |-> Len(result.errors) = 0, created_count |-> result.created_count,
     updated_count |-> result.updated_count, errors |-> result.errors]

TargetKey(t) == <<t.segment_id, t.kpi_id, normalize_to_month_start(t.month), TRUE>>

Init ==
    /\ kpi_values = {}
    /\ nextId = 1
    /\ recon = ReconIdle
    /\ pc = [p \in Procs |-> "idle"]
    /\ call = [p \in Procs |-> NoCall]
    /\ existing = [p \in Procs |-> {}]
    /\ ret = [p \in Procs |-> NoRet]
    /\ bulk = [p \in Procs |-> NoBulk]
    /\ lastWrite = [k \in AllKeys |-> NULL]
    /\ calc = CalcIdle
    /\ regional = RegionalIdle
    /\ cache = EmptyCache
    /\ now = 0
    /\ financial_data = NoFinancialData
    /\ served = NoServed
    /\ matrix = MatrixIdle
    /\ requests = NoRequests
    /\ limiter = LimiterIdle

\* a direct call of create_target_value (the single-target endpoint)
DirectCreate(target) ==
    /\ recon.phase = "idle"
    /\ LET w == create_target_value(kpi_values, nextId, target.segment_id,
                                    target.kpi_id, target.month, target.value)
       IN /\ kpi_values' = w.tbl
          /\ nextId' = w.nid
          /\ recon' = [recon EXCEPT !.ctvPrev = recon.ctv,
                                    !.ctv = [target |-> target, ret |-> w.ret,
                                             tbl |-> w.tbl]]
    /\ UNCHANGED <<limiterVars, procVars, otherVars>>

\* bulk_upsert_targets is called with a list of targets
StartBulk(targets) ==
    /\ recon.phase = "idle"
    /\ recon' = [ReconIdle EXCEPT !.phase = "bulk", !.targets = targets]
    /\ UNCHANGED <<limiterVars, factVars, procVars, otherVars>>

\* one iteration of the loop: the call, and the count or the error entry
BulkRow(fault) ==
    /\ recon.phase = "bulk"
    /\ recon.idx <= Len(recon.targets)
    /\ LET t == recon.targets[recon.idx]
           w == CreateTargetOutcome(kpi_values, nextId, t, fault)
       IN /\ kpi_values' = w.tbl
          /\ nextId' = w.nid
          /\ recon' = [recon EXCEPT
                 !.result = BulkRecord(@, t.segment_id, t.kpi_id, w.ret),
                 !.failed = IF w.ret.kind = "raised" THEN @ \cup {recon.idx} ELSE @,
                 !.created = IF w.ret.kind = "ok" /\ w.ret.is_created
                             THEN @ \cup {TargetKey(t)} ELSE @,
                 !.idx = NextIndex(recon.idx, w.ret, Len(recon.targets))]
    /\ UNCHANGED <<limiterVars, procVars, otherVars>>

\* the loop is over: the result is returned and the endpoint builds its response
BulkFinish ==
    /\ recon.phase = "bulk"
    /\ recon.idx > Len(recon.targets)
    /\ recon' = [recon EXCEPT
           !.phase = "returned",
           !.response = BulkResponse(recon.result),
           !.first = IF recon.round = 1
                     THEN [tbl |-> kpi_values, result |-> recon.result,
                           failed |-> recon.failed, created |-> recon.created]
                     ELSE @]
    /\ UNCHANGED <<limiterVars, factVars, procVars, otherVars>>

\* the caller sends the identical request again
BulkAgain ==
    /\ recon.phase = "returned"
    /\ recon.round = 1
    /\ recon' = [recon EXCEPT !.phase = "bulk", !.round = 2, !.idx = 1,
                              !.result = EmptyResult, !.failed = {}, !.created = {},
                              !.response = NoResponse]
    /\ UNCHANGED <<limiterVars, factVars, procVars, otherVars>>

\* the client is done with the request
ReconReset ==
    /\ recon.phase = "returned"
    /\ recon' = ReconIdle
    /\ UNCHANGED <<limiterVars, factVars, procVars, otherVars>>

TargetNext ==
    \/ \E t \in TargetRows : DirectCreate(t)
    \/ \E ts \in TargetLists : StartBulk(ts)
    \/ \E fault \in BOOLEAN : BulkRow(fault)
    \/ BulkFinish
    \/ BulkAgain
    \/ ReconReset

SpecTarget == Init /\ [][TargetNext]_vars

-----------------------------------------------------------------------------
(* Concurrent clients of the fact table: each call is a lookup step and a   *)
(* write step, and the steps of different clients interleave.               *)


\* a client calls create_target_value; month is normalized on entry
CallCreateTargetValue(p, segment_id, kpi_id, month, value) ==
    /\ pc[p] = "idle" /\ ~bulk[p].active
    /\ call' = [call EXCEPT ![p] =
                  [op |-> "create_target_value"]
                  @@ TargetData(segment_id, kpi_id, month, value)]
    /\ pc' = [pc EXCEPT ![p] = "select"]
    /\ ret' = [ret EXCEPT ![p] = NoRet]
    /\ existing' = [existing EXCEPT ![p] = {}]
    /\ UNCHANGED <<limiterVars, kpi_values, nextId, bulk, lastWrite, recon, otherVars>>

\* a client calls upsert_kpi_value; the date is used as given
CallUpsertKpiValue(p, segment_id, kpi_id, target_date, value, is_target) ==
    /\ pc[p] = "idle" /\ ~bulk[p].active
    /\ call' = [call EXCEPT ![p] =
                  [op |-> "upsert_kpi_value"]
                  @@ KpiData(segment_id, kpi_id, target_date, value, is_target)]
    /\ pc' = [pc EXCEPT ![p] = "select"]
    /\ ret' = [ret EXCEPT ![p] = NoRet]
    /\ existing' = [existing EXCEPT ![p] = {}]
    /\ UNCHANGED <<limiterVars, kpi_values, nextId, bulk, lastWrite, recon, otherVars>>

\* a client calls bulk_upsert_targets: the result dictionary is created
CallBulkUpsertTargets(p) ==
    /\ pc[p] = "idle" /\ ~bulk[p].active
    /\ bulk' = [bulk EXCEPT ![p] = [active |-> TRUE, n |-> 0, result |-> EmptyResult]]
    /\ ret' = [ret EXCEPT ![p] = NoRet]
    /\ UNCHANGED <<limiterVars, kpi_values, nextId, pc, call, existing, lastWrite, recon, otherVars>>

\* the loop takes the next target and enters create_target_value
BulkNextTarget(p, segment_id, kpi_id, month, value) ==
    /\ pc[p] = "idle" /\ bulk[p].active /\ bulk[p].n < MaxTargets
    /\ bulk' = [bulk EXCEPT ![p].n = @ + 1]
    /\ call' = [call EXCEPT ![p] =
                  [op |-> "create_target_value"]
                  @@ TargetData(segment_id, kpi_id, month, value)]
    /\ pc' = [pc EXCEPT ![p] = "select"]
    /\ ret' = [ret EXCEPT ![p] = NoRet]
    /\ existing' = [existing EXCEPT ![p] = {}]
    /\ UNCHANGED <<limiterVars, kpi_values, nextId, lastWrite, recon, otherVars>>

\* the loop is exhausted: bulk_upsert_targets returns result
BulkReturn(p) ==
    /\ pc[p] = "idle" /\ bulk[p].active
    /\ bulk' = [bulk EXCEPT ![p].active = FALSE]
    /\ UNCHANGED <<limiterVars, kpi_values, nextId, pc, call, existing, ret, lastWrite, recon, otherVars>>

\* the lookup of the existing record
SelectExisting(p) ==
    /\ pc[p] = "select"
    /\ existing' = [existing EXCEPT ![p] =
                      Select(kpi_values, call[p].segment_id, call[p].kpi_id,
                             call[p].date, call[p].is_target)]
    /\ pc' = [pc EXCEPT ![p] = "write"]
    /\ UNCHANGED <<limiterVars, kpi_values, nextId, call, ret, bulk, lastWrite, recon, otherVars>>

CallData(c) ==
    [segment_id |-> c.segment_id, kpi_id |-> c.kpi_id, date |-> c.date,
     value |-> c.value, is_target |-> c.is_target]

\* the update or insert decided by the lookup, and the return (or the raise)
WriteRow(p) ==
    /\ pc[p] = "write"
    /\ LET data == CallData(call[p])
           w == IF call[p].op = "create_target_value"
                THEN CreateTargetWrite(kpi_values, nextId, existing[p], data)
                ELSE UpsertKpiWrite(kpi_values, nextId, existing[p], data)
       IN /\ kpi_values' = w.tbl
          /\ nextId' = w.nid
          /\ ret' = [ret EXCEPT ![p] = w.ret]
          /\ bulk' = IF bulk[p].active
                     THEN [bulk EXCEPT ![p].result =
                             BulkRecord(@, data.segment_id, data.kpi_id, w.ret)]
                     ELSE bulk
          /\ lastWrite' = [lastWrite EXCEPT ![Key(data)] = data.value]
    /\ pc' = [pc EXCEPT ![p] = "idle"]
    /\ UNCHANGED <<limiterVars, call, existing, recon, otherVars>>

FactNext ==
    \/ \E p \in Procs, s \in Segments, k \in Kpis, d \in FactDates, v \in FactValues :
          CallCreateTargetValue(p, s, k, d, v)
    \/ \E p \in Procs, s \in Segments, k \in Kpis, d \in UpsertDates, v \in FactValues :
          CallUpsertKpiValue(p, s, k, d, v, FALSE)
    \/ \E p \in BulkClients : CallBulkUpsertTargets(p)
    \/ \E p \in BulkClients, s \in Segments, k \in Kpis, d \in FactDates,
          v \in FactValues :
          BulkNextTarget(p, s, k, d, v)
    \/ \E p \in BulkClients : BulkReturn(p)
    \/ \E p \in Procs : SelectExisting(p)
    \/ \E p \in Procs : WriteRow(p)

SpecFact == Init /\ [][FactNext]_vars

-----------------------------------------------------------------------------
(* Applications of the metric and period functions to inputs from the       *)
(* domains above                                                            *)

tableVars == <<factVars, procVars, recon>>

ApplyAchievementRate(actual, target) ==
    /\ calc' = [fn |-> "calculate_achievement_rate", args |-> <<actual, target>>,
                out |-> calculate_achievement_rate(actual, target)]
    /\ UNCHANGED <<limiterVars, tableVars, matrix, regional, cacheVars>>

ApplyYoyRate(current, previous) ==
    /\ calc' = [fn |-> "calculate_yoy_rate", args |-> <<current, previous>>,
                out |-> calculate_yoy_rate(current, previous)]
    /\ UNCHANGED <<limiterVars, tableVars, matrix, regional, cacheVars>>

ApplyYtd(values, target_date, is_target) ==
    /\ calc' = [fn |-> "calculate_ytd", args |-> <<values, target_date, is_target>>,
                out |-> Returned(calculate_ytd(values, target_date, is_target))]
    /\ UNCHANGED <<limiterVars, tableVars, matrix, regional, cacheVars>>

\* one KPI of get_department_summary
ApplySummaryYtd(values, target_month, include_ytd) ==
    /\ calc' = [fn |-> "get_department_summary",
                args |-> <<values, target_month, include_ytd>>,
                out |-> SummaryYtd(values, normalize_to_month_start(target_month),
                                   include_ytd)]
    /\ UNCHANGED <<limiterVars, tableVars, matrix, regional, cacheVars>>

ApplyPreviousYearRange(start_date, end_date) ==
    /\ DateLE(start_date, end_date)
    /\ calc' = [fn |-> "get_previous_year_range", args |-> <<start_date, end_date>>,
                out |-> get_previous_year_range(start_date, end_date)]
    /\ UNCHANGED <<limiterVars, tableVars, matrix, regional, cacheVars>>

ApplyTwoYearsAgoRange(start_date, end_date) ==
    /\ DateLE(start_date, end_date)
    /\ calc' = [fn |-> "get_two_years_ago_range", args |-> <<start_date, end_date>>,
                out |-> get_two_years_ago_range(start_date, end_date)]
    /\ UNCHANGED <<limiterVars, tableVars, matrix, regional, cacheVars>>

CalcNext ==
    \/ \E actual, target \in Operands : ApplyAchievementRate(actual, target)
    \/ \E current, previous \in Operands : ApplyYoyRate(current, previous)
    \/ \E values \in YtdLists, target_date \in YtdTargetDates, is_target \in BOOLEAN :
          ApplyYtd(values, target_date, is_target)
    \/ \E values \in YtdLists, target_month \in YtdTargetDates, include_ytd \in BOOLEAN :
          ApplySummaryYtd(values, target_month, include_ytd)
    \/ \E start_date, end_date \in RangeDates :
          ApplyPreviousYearRange(start_date, end_date)
    \/ \E start_date, end_date \in RangeDates :
          ApplyTwoYearsAgoRange(start_date, end_date)

SpecCalc == Init /\ [][CalcNext]_vars

-----------------------------------------------------------------------------
(* Report requests: each request is served from the idle state and its      *)
(* response is handed back before the next one.                             *)

\* get_department_summary for a department with one visible KPI
GetDepartmentSummary(table, target_month, include_ytd) ==
    /\ calc = CalcIdle
    /\ calc' = [fn |-> "get_department_summary.kpis",
                args |-> <<table, target_month, include_ytd>>,
                out |-> KpiSummary(table, SummaryKpi, target_month, include_ytd)]
    /\ UNCHANGED <<limiterVars, tableVars, matrix, regional, cacheVars>>

\* the aggregation of the financial rows of a window
GetAggregatedFinancialData(table, start_date, end_date) ==
    /\ calc = CalcIdle
    /\ start_date <= end_date
    /\ calc' = [fn |-> "_get_aggregated_financial_data",
                args |-> <<table, start_date, end_date>>,
                out |-> get_aggregated_financial_data(table, start_date, end_date)]
    /\ UNCHANGED <<limiterVars, tableVars, matrix, regional, cacheVars>>

\* the list of months for the month selector; fault is the read that fails
GetAvailableMonths(table, department_id, fault) ==
    /\ calc = CalcIdle
    /\ fault = "segments" => department_id # NoDepartment
    /\ calc' = [fn |-> "get_available_months",
                args |-> <<table, department_id, fault>>,
                out |-> get_available_months(table, department_id, fault)]
    /\ UNCHANGED <<limiterVars, tableVars, matrix, regional, cacheVars>>

\* the fiscal year of one date by each of the three functions
FiscalYearOf(target_date) ==
    /\ calc = CalcIdle
    /\ calc' = [fn |-> "fiscal_year", args |-> <<target_date>>,
                out |-> [metrics |-> get_fiscal_year(target_date),
                         period_utils |-> period_utils_get_fiscal_year(target_date),
                         financial_import |-> calculate_fiscal_year(target_date)]]
    /\ UNCHANGED <<limiterVars, tableVars, matrix, regional, cacheVars>>

\* the quarter of a month and the months of that quarter
QuarterOf(month) ==
    /\ calc = CalcIdle
    /\ calc' = [fn |-> "get_quarter", args |-> <<month>>,
                out |-> [quarter |-> get_quarter(month),
                         months |-> get_quarter_months(get_quarter(month))]]
    /\ UNCHANGED <<limiterVars, tableVars, matrix, regional, cacheVars>>

\* achievement rates in hundredths of a percent, None included
AlertRates == {NULL, 0, 5000, 7999, 8000, 8001, 9999, 10000, 10001, 25000}

\* the alert level of one achievement rate
AlertLevelOf(achievement_rate) ==
    /\ calc = CalcIdle
    /\ calc' = [fn |-> "get_alert_level", args |-> <<achievement_rate>>,
                out |-> get_alert_level(achievement_rate)]
    /\ UNCHANGED <<limiterVars, tableVars, matrix, regional, cacheVars>>

YoyOperands == {0 - 100, 0 - 50, 0, 1, 3, 7, 90, 100, 110, 2000}

\* the year-on-year rate of two values
YoyRateOf(current, previous) ==
    /\ calc = CalcIdle
    /\ calc' = [fn |-> "metrics.calculate_yoy_rate", args |-> <<current, previous>>,
                out |-> calculate_yoy_rate(current, previous)]
    /\ UNCHANGED <<limiterVars, tableVars, matrix, regional, cacheVars>>

\* the regions of the regional summary with their stores and sales targets
GetRegionalTargets(segments, regions, segment_to_region, store_target_sales) ==
    /\ calc = CalcIdle
    /\ calc' = [fn |-> "get_regional_summary.target_sales",
                args |-> <<segments, regions, segment_to_region, store_target_sales>>,
                out |-> RegionTargets(regions, segments, segment_to_region, regions,
                                      store_target_sales)]
    /\ UNCHANGED <<limiterVars, tableVars, matrix, regional, cacheVars>>

\* the range of a period of a fiscal year
PeriodRangeOf(period_type, year, month, quarter) ==
    /\ calc = CalcIdle
    /\ calc' = [fn |-> "get_period_range", args |-> <<period_type, year, month, quarter>>,
                out |-> get_period_range(period_type, year, month, quarter)]
    /\ UNCHANGED <<limiterVars, tableVars, matrix, regional, cacheVars>>

\* the dashboard asked without a period on the day today
DashboardDefaultPeriod(period_type, today) ==
    /\ calc = CalcIdle
    /\ calc' = [fn |-> "get_dashboard_data.period", args |-> <<period_type, today>>,
                out |-> DefaultDashboardPeriod(period_type, today)]
    /\ UNCHANGED <<limiterVars, tableVars, matrix, regional, cacheVars>>

\* the row that the target setting screen stores for a month
SaveFinancialTargets(data_month) ==
    /\ calc = CalcIdle
    /\ calc' = [fn |-> "save_financial_targets", args |-> <<data_month>>,
                out |-> save_financial_targets(data_month)]
    /\ UNCHANGED <<limiterVars, tableVars, matrix, regional, cacheVars>>

\* the row that the upload stores for a month
ImportFinancialRecord(month, is_target) ==
    /\ calc = CalcIdle
    /\ calc' = [fn |-> "import_financial_data", args |-> <<month, is_target>>,
                out |-> import_financial_data(month, is_target)]
    /\ UNCHANGED <<limiterVars, tableVars, matrix, regional, cacheVars>>

\* the response is returned to the caller
ReportDone ==
    /\ calc # CalcIdle
    /\ calc' = CalcIdle
    /\ UNCHANGED <<limiterVars, tableVars, matrix, regional, cacheVars>>

ReportNext ==
    \/ \E table \in SummaryTables, target_month \in SummaryMonths, include_ytd \in BOOLEAN :
          GetDepartmentSummary(table, target_month, include_ytd)
    \/ \E table \in FinTables, start_date, end_date \in FinMonths :
          GetAggregatedFinancialData(table, start_date, end_date)
    \/ \E table \in SUBSET MonthRows, department_id \in DepartmentIds, fault \in ReadFaults :
          GetAvailableMonths(table, department_id, fault)
    \/ \E target_date \in FiscalDates : FiscalYearOf(target_date)
    \/ \E month \in 1..12 : QuarterOf(month)
    \/ \E achievement_rate \in AlertRates : AlertLevelOf(achievement_rate)
    \/ \E current, previous \in YoyOperands : YoyRateOf(current, previous)
    \/ \E segments \in StoreLists, regions \in RegionLists :
          \E segment_to_region \in Mappings(segments, regions), store_target_sales \in StoreTargets(segments) :
             GetRegionalTargets(segments, regions, segment_to_region, store_target_sales)
    \/ \E period_type \in PeriodRangeTypes, year \in 2023..2024, month \in 1..12, quarter \in 1..4 :
          PeriodRangeOf(period_type, year, month, quarter)
    \/ \E period_type \in PeriodRangeTypes, today \in FiscalDates :
          DashboardDefaultPeriod(period_type, today)
    \/ \E data_month \in FinancialWriteMonths : SaveFinancialTargets(data_month)
    \/ \E month \in FinancialWriteMonths, is_target \in BOOLEAN :
          ImportFinancialRecord(month, is_target)
    \/ ReportDone

SpecReport == Init /\ [][ReportNext]_vars

-----------------------------------------------------------------------------
(* The target endpoints and the import of actuals, one call at a time on    *)
(* one fact table; calc keeps the call and the table it found.              *)

SeriesCall(fn, args) == [fn |-> fn, args |-> args, out |-> [before |-> kpi_values]]

SeriesCreateTarget(segment_id, kpi_id, month, value) ==
    /\ nextId <= MaxSeriesIds
    /\ LET w == create_target_value(kpi_values, nextId, segment_id, kpi_id, month, value)
       IN kpi_values' = w.tbl /\ nextId' = w.nid
    /\ calc' = SeriesCall("create_target_value", <<segment_id, kpi_id, month, value>>)
    /\ UNCHANGED <<limiterVars, procVars, recon, regional, cacheVars, matrix>>

SeriesUpsertActual(segment_id, kpi_id, target_date, value) ==
    /\ nextId <= MaxSeriesIds
    /\ LET w == upsert_kpi_value(kpi_values, nextId, segment_id, kpi_id, target_date,
                                 value, FALSE)
       IN kpi_values' = w.tbl /\ nextId' = w.nid
    /\ calc' = SeriesCall("upsert_kpi_value", <<segment_id, kpi_id, target_date, value>>)
    /\ UNCHANGED <<limiterVars, procVars, recon, regional, cacheVars, matrix>>

SeriesUpdateTarget(target_id, value) ==
    /\ kpi_values' = update_target_value(kpi_values, target_id, value).tbl
    /\ calc' = SeriesCall("update_target_value", <<target_id, value>>)
    /\ UNCHANGED <<limiterVars, nextId, procVars, recon, regional, cacheVars, matrix>>

SeriesDeleteTarget(target_id) ==
    /\ kpi_values' = delete_target_value(kpi_values, target_id).tbl
    /\ calc' = SeriesCall("delete_target_value", <<target_id>>)
    /\ UNCHANGED <<limiterVars, nextId, procVars, recon, regional, cacheVars, matrix>>

SeriesNext ==
    \/ \E s \in Segments, k \in Kpis, month \in FactDates, v \in FactValues :
          SeriesCreateTarget(s, k, month, v)
    \/ \E s \in Segments, k \in Kpis, d \in SeriesDates, v \in FactValues :
          SeriesUpsertActual(s, k, d, v)
    \/ \E target_id \in TargetIds, v \in FactValues : SeriesUpdateTarget(target_id, v)
    \/ \E target_id \in TargetIds : SeriesDeleteTarget(target_id)

SpecSeries == Init /\ [][SeriesNext]_vars

-----------------------------------------------------------------------------
(* Store KPI files imported one after the other into one fact table; calc   *)
(* keeps the last import and its result.                                    *)

ImportStoreKpi(stores, value, fail) ==
    /\ LET r == import_store_kpi(kpi_values, nextId, stores, value, fail)
       IN /\ kpi_values' = r.tbl
          /\ nextId' = r.nid
          /\ calc' = [fn |-> "import_store_kpi", args |-> <<stores, value, fail>>,
                      out |-> [imported |-> r.imported, errors |-> r.errors,
                               written |-> r.written]]
    /\ UNCHANGED <<limiterVars, procVars, recon, regional, cacheVars, matrix>>

ImportNext ==
    \E n \in 0..MaxImportStores, value \in ImportValues, fail \in 0..MaxImportStores :
        ImportStoreKpi(SubSeq(StoreSeq, 1, n), value, fail)

SpecImport == Init /\ [][ImportNext]_vars

-----------------------------------------------------------------------------
(* The regional summary over every department, region table and mapping of  *)
(* the domains above                                                        *)

GetRegionalSummary(segments, regions, segment_to_region, store_sales, store_customers) ==
    /\ regional' =
          [called |-> TRUE, segments |-> segments, regions |-> regions,
           segment_to_region |-> segment_to_region,
           store_sales |-> store_sales, store_customers |-> store_customers,
           out |-> get_regional_summary(segments, regions, segment_to_region,
                                        store_sales, store_customers)]
    /\ UNCHANGED <<limiterVars, tableVars, matrix, calc, cacheVars>>

RegionNext ==
    \E segments \in StoreLists, regions \in RegionLists :
       \E segment_to_region \in Mappings(segments, regions),
          store_sales \in [SeqRange(segments) -> SalesValues],
          store_customers \in [SeqRange(segments) -> CustomerValues] :
          GetRegionalSummary(segments, regions, segment_to_region,
                             store_sales, store_customers)

SpecRegion == Init /\ [][RegionNext]_vars

-----------------------------------------------------------------------------
(* The cached dashboard report, the financial import, the cache-clear       *)
(* endpoint and the passing of time                                         *)

\* async_wrapper of @cached around get_dashboard_data
CachedGetDashboardData(month) ==
    LET key == generate_key("dashboard", month)
        got == CacheGet(cache, key, now)
        result == get_dashboard_data(financial_data, month)
    IN /\ IF got.value.present
          THEN /\ cache' = got.cache
               /\ served' = [month |-> month, hit |-> TRUE, value |-> got.value,
                             fresh |-> result]
          ELSE /\ cache' = CacheSet(got.cache, key, result, DashboardTtl, now)
               /\ served' = [month |-> month, hit |-> FALSE, value |-> result,
                             fresh |-> result]
       /\ UNCHANGED <<limiterVars, tableVars, matrix, calc, regional, now, financial_data>>

\* import_financial_data: update the row of (month, is_target) or insert it;
\* the cache is not touched
ImportFinancialData(month, is_target, sales_total) ==
    /\ financial_data' = [financial_data EXCEPT ![<<month, is_target>>] = sales_total]
    /\ UNCHANGED <<limiterVars, tableVars, matrix, calc, regional, cache, now, served>>

\* the cache-clear endpoint: clear_prefix(prefix), or clear_all without a prefix
ClearCache(prefix) ==
    /\ cache' = IF prefix # <<>> THEN clear_prefix(cache, prefix) ELSE EmptyCache
    /\ UNCHANGED <<limiterVars, tableVars, matrix, calc, regional, now, financial_data, served>>

Tick(d) ==
    /\ now + d <= MaxNow
    /\ now' = now + d
    /\ UNCHANGED <<limiterVars, tableVars, matrix, calc, regional, cache, financial_data, served>>

CacheNext ==
    \/ \E month \in ReportMonths : CachedGetDashboardData(month)
    \/ \E month \in ReportMonths, sales_total \in SalesTotals :
          ImportFinancialData(month, FALSE, sales_total)
    \/ \E prefix \in ClearPrefixes : ClearCache(prefix)
    \/ \E d \in Elapsed : Tick(d)

SpecCache == Init /\ [][CacheNext]_vars

-----------------------------------------------------------------------------
(* Direct calls of cache.clear_prefix (the cache-clear endpoint, the store  *)
(* P&L import) next to the cached dashboard report.                         *)

\* len(keys_to_delete)
clear_prefix_count(c, prefix) == Cardinality({k \in DOMAIN c : StartsWith(k, prefix)})

\* count = cache.clear_prefix(prefix); calc keeps the call, the cache it found
\* and the cache it left
ClearPrefixCall(prefix) ==
    /\ cache' = clear_prefix(cache, prefix)
    /\ calc' = [fn |-> "clear_prefix", args |-> <<prefix>>,
                out |-> [before |-> cache, after |-> clear_prefix(cache, prefix),
                         at |-> now, count |-> clear_prefix_count(cache, prefix)]]
    /\ UNCHANGED <<limiterVars, tableVars, matrix, regional, now, financial_data, served>>

ClearNext ==
    \/ \E month \in ReportMonths : CachedGetDashboardData(month)
    \/ \E prefix \in ClearPrefixes \ {<<>>} : ClearPrefixCall(prefix)
    \/ \E d \in Elapsed : Tick(d)

SpecClear == Init /\ [][ClearNext]_vars

-----------------------------------------------------------------------------
(* One product-matrix request at a time over the departments, fact tables   *)
(* and period types of the domains above                                    *)

GetProductMatrix(table, kpis, segments, target_month, period_type) ==
    /\ ~matrix.called
    /\ LET m == get_product_matrix(table, kpis, segments, target_month, period_type)
       IN matrix' = [called |-> TRUE, table |-> table, kpis |-> kpis,
                     segments |-> segments, target_month |-> target_month,
                     period_type |-> period_type, reads |-> m.reads, out |-> m.out]
    /\ UNCHANGED <<limiterVars, tableVars, calc, regional, cacheVars>>

\* the response has been sent
MatrixDone ==
    /\ matrix.called
    /\ matrix' = MatrixIdle
    /\ UNCHANGED <<limiterVars, tableVars, calc, regional, cacheVars>>

MatrixNext ==
    \/ \E table \in MatrixTables, kpis \in ProductKpiLists, segments \in MatrixStoreLists,
          target_month \in MatrixMonths, period_type \in PeriodTypes :
          GetProductMatrix(table, kpis, segments, target_month, period_type)
    \/ MatrixDone

SpecMatrix == Init /\ [][MatrixNext]_vars

-----------------------------------------------------------------------------
(* the rate limiter: requests of the clients in the order of their arrival *)

Dispatch(client_ip, path) ==
    /\ LET d == dispatch(requests, limiter, client_ip, path)
       IN /\ requests' = d.requests
          /\ limiter' = d.limiter
    /\ UNCHANGED <<tableVars, otherVars>>

\* time.time() advances
Advance ==
    /\ limiter.time < MaxTime
    /\ limiter' = [limiter EXCEPT !.time = @ + 1]
    /\ UNCHANGED <<requests, tableVars, otherVars>>

LimiterNext ==
    \/ \E client_ip \in ClientIps, path \in RequestPaths : Dispatch(client_ip, path)
    \/ Advance

SpecLimiter == Init /\ [][LimiterNext]_vars

-----------------------------------------------------------------------------
(* C1: the fact table never holds two rows with one composite identity      *)
(* (segment_id, kpi_id, date, is_target), whatever the interleaving of the  *)
(* lookup and write steps of create_target_value, bulk_upsert_targets and   *)
(* upsert_kpi_value calls; after a call that returned, exactly one row      *)
(* carries the identity it wrote.                                           *)
C1_OneRowPerIdentity ==
    /\ \A r1, r2 \in kpi_values : Key(r1) = Key(r2) => r1 = r2
    /\ \A p \in Procs :
          (pc[p] = "idle" /\ ret[p].kind \in {"ok", "true"}) =>
             Cardinality({r \in kpi_values : Key(r) = Key(call[p])}) = 1

\* two calls for one identity interleaved: one wrote the row, the other was rejected
C1_Witness ==
    /\ ret["p1"].kind = "ok" /\ ret["p2"].kind = "raised"
    /\ pc["p1"] = "idle" /\ pc["p2"] = "idle"
    /\ Key(call["p1"]) = Key(call["p2"])
    /\ kpi_values # {}

(* C2: concurrent upserts to one key resolve by last-write-wins: when two   *)
(* create_target_value calls for the same (segment_id, kpi_id, month)       *)
(* overlap, both complete without error and the surviving row holds the     *)
(* value of the write that was applied last.                                *)
C2_LastWriteWins ==
    /\ \A p \in Procs :
          (pc[p] = "idle" /\ call[p].op = "create_target_value") =>
             ret[p].kind # "raised"
    /\ \A k \in AllKeys :
          lastWrite[k] # NULL =>
             \E r \in kpi_values : Key(r) = k /\ r.value = lastWrite[k]

-----------------------------------------------------------------------------
\* the composite identity a target addresses: its month's first day, as a target
IdentityOf(t) == <<t.segment_id, t.kpi_id, <<t.month[1], t.month[2], 1>>, TRUE>>

(* C3: bulk_upsert_targets applied twice in succession with identical input *)
(* yields the same fact rows as applied once, and the second call counts no *)
(* row the first call created as created: with the same rows failing in     *)
(* both calls (in particular with none failing) the table after the second  *)
(* call equals the table after the first, created_count is 0 and every row  *)
(* that did not fail is counted as updated.                                 *)
C3_BulkIdempotent ==
    (recon.phase = "returned" /\ recon.round = 2) =>
        /\ recon.created \cap recon.first.created = {}
        /\ recon.failed = recon.first.failed =>
              /\ kpi_values = recon.first.tbl
              /\ recon.result.created_count = 0
              /\ recon.result.updated_count =
                    Len(recon.targets) - Cardinality(recon.failed)
              /\ recon.response.created_count = 0

\* a second identical call has returned after a first call that created rows
C3_Witness ==
    /\ recon.phase = "returned" /\ recon.round = 2
    /\ Len(recon.targets) >= 2
    /\ recon.first.result.created_count >= 1
    /\ recon.first.failed = {} /\ recon.failed = {}

(* C4: bulk upsert is not transactional across rows: a failing row neither  *)
(* aborts the batch nor undoes another row. When the call has returned,     *)
(* every row that did not fail is committed (the table holds its identity   *)
(* with the value of the last such row of the batch), every failing row has *)
(* one entry in the error list, and success is reported exactly when the    *)
(* error list is empty.                                                     *)
C4_PerRowFailure ==
    recon.phase = "returned" =>
        LET n == Len(recon.targets)
            good == (1..n) \ recon.failed
            same(i, j) == IdentityOf(recon.targets[i]) = IdentityOf(recon.targets[j])
            last(i) == CHOOSE j \in good :
                          same(i, j) /\ \A k \in good : same(i, k) => k <= j
        IN /\ Len(recon.result.errors) = Cardinality(recon.failed)
           /\ recon.result.created_count + recon.result.updated_count
                 = Cardinality(good)
           /\ \A i \in good :
                 \E r \in kpi_values :
                    /\ Key(r) = IdentityOf(recon.targets[i])
                    /\ r.value = recon.targets[last(i)].value
           /\ recon.response.success = (recon.failed = {})
           /\ recon.response.errors = recon.result.errors

\* a batch has returned in which a row failed and a later row was committed
C4_Witness ==
    /\ recon.phase = "returned"
    /\ \E i \in recon.failed :
          \E j \in (1..Len(recon.targets)) \ recon.failed : i < j
    /\ ~recon.response.success
    /\ recon.result.created_count >= 1

(* C5: create_target_value is idempotent: a second call with the same       *)
(* (segment_id, kpi_id, month) and the same value does not raise, reports   *)
(* is_created = false with the id of the existing row, and leaves the fact  *)
(* table as it was after the first call.                                    *)
C5_CreateIdempotent ==
    LET a == recon.ctvPrev
        b == recon.ctv
    IN (/\ a.ret.kind = "ok"
        /\ b.ret.kind # "none"
        /\ IdentityOf(a.target) = IdentityOf(b.target)
        /\ a.target.value = b.target.value) =>
          /\ b.ret = [kind |-> "ok", id |-> a.ret.id, is_created |-> FALSE]
          /\ b.tbl = a.tbl
          /\ kpi_values = a.tbl

\* the second call gave another day of the month the first call created a row for
C5_Witness ==
    /\ recon.ctvPrev.ret.kind = "ok" /\ recon.ctvPrev.ret.is_created
    /\ recon.ctv.ret.kind = "ok"
    /\ IdentityOf(recon.ctvPrev.target) = IdentityOf(recon.ctv.target)
    /\ recon.ctvPrev.target.month # recon.ctv.target.month
    /\ recon.ctvPrev.target.value = recon.ctv.target.value

-----------------------------------------------------------------------------
(* C6: every ratio function returns null, and never raises, whenever a      *)
(* required operand is null or the divisor is zero: for                     *)
(* calculate_achievement_rate(actual, target) and                           *)
(* calculate_yoy_rate(current, previous), a null first operand, a null      *)
(* second operand or a zero second operand gives the result null.           *)
C6_RatioNull ==
    calc.fn \in {"calculate_achievement_rate", "calculate_yoy_rate"} =>
        ((calc.args[1] = NULL \/ calc.args[2] = NULL \/ calc.args[2] = 0) =>
            (~calc.out.raised /\ calc.out.value = NULL))

-----------------------------------------------------------------------------
\* the rows of values with the requested flag whose date lies in
\* [September 1 of the fiscal year of target_date, target_date]
YtdWindow(values, target_date, is_target) ==
    LET fy == IF target_date[2] >= 9 THEN target_date[1] ELSE target_date[1] - 1
    IN {i \in 1..Len(values) :
           /\ values[i].is_target = is_target
           /\ DateLE(<<fy, 9, 1>>, values[i].date)
           /\ DateLE(values[i].date, target_date)}

RECURSIVE SumAt(_, _)
SumAt(values, idx) ==
    IF idx = {} THEN 0
    ELSE LET i == CHOOSE j \in idx : TRUE
         IN values[i].value + SumAt(values, idx \ {i})

-----------------------------------------------------------------------------
(* C8: in the regional rollup a segment with no store_region_mapping entry  *)
(* is never dropped: it is listed in a bucket of the result, that bucket's  *)
(* totals are the sums over the stores listed in it, and the grand total    *)
(* includes the figures of every segment.                                   *)
C8_UnmappedRouted ==
    regional.called =>
        LET out == regional.out
            segs == regional.segments
            Listed(j) == {out.regions[j].stores[k].segment_id :
                             k \in 1..Len(out.regions[j].stores)}
            ListedSeq(j) == SelectSeq(segs, LAMBDA s : s \in Listed(j))
        IN /\ \A i \in 1..Len(segs) :
                 segs[i] \notin DOMAIN regional.segment_to_region =>
                    \E j \in 1..Len(out.regions) :
                       /\ segs[i] \in Listed(j)
                       /\ Figure(out.regions[j].total_sales) =
                             SumStores(ListedSeq(j), regional.store_sales)
                       /\ Figure(out.regions[j].total_customers) =
                             SumStores(ListedSeq(j), regional.store_customers)
           /\ Figure(out.grand_total.total_sales) = SumStores(segs, regional.store_sales)
           /\ out.grand_total.present =>
                 Figure(out.grand_total.total_customers) =
                    SumStores(segs, regional.store_customers)

-----------------------------------------------------------------------------
(* C9: the cache is invalidate-on-write: a call of the cached dashboard     *)
(* report made after a completed write to the data it depends on never      *)
(* returns the result cached before the write, so every response served     *)
(* from the cache equals the report computed from the tables at that call.  *)
C9_InvalidateOnWrite ==
    served.hit => served.value = served.fresh

-----------------------------------------------------------------------------
(* C10: get_previous_year_range and get_two_years_ago_range return a range  *)
(* for every valid (start_date, end_date) without raising, and a bound      *)
(* whose day does not exist in the target year (Feb 29) falls back to the   *)
(* last day of that month in the target year.                               *)
C10_RangesTotal ==
    calc.fn \in {"get_previous_year_range", "get_two_years_ago_range"} =>
        LET k == IF calc.fn = "get_previous_year_range" THEN 1 ELSE 2
            Shifted(d) ==
                IF d[3] <= monthrange(d[1] - k, d[2])
                THEN <<d[1] - k, d[2], d[3]>>
                ELSE <<d[1] - k, d[2], monthrange(d[1] - k, d[2])>>
        IN /\ ~calc.out.raised
           /\ calc.out.start = Shifted(calc.args[1])
           /\ calc.out.end = Shifted(calc.args[2])

-----------------------------------------------------------------------------
\* the positions of the fact-table reads in the read log of the last request
FactReadsOf(reads) == {i \in 1..Len(reads) : reads[i].table = "kpi_values"}

-----------------------------------------------------------------------------
(* C12: in the matrix response the totals are consistent with the displayed *)
(* cells: for every indicator the column total of actual, previous-year and *)
(* two-years-ago equals the sum of that indicator's cells over all returned *)
(* stores, and each store's row total equals the sum of that store's cells  *)
(* (an empty cell or total counting as zero).                               *)
C12_TotalsMatchCells ==
    matrix.called =>
        LET out == matrix.out
            stores == [i \in 1..Len(out.stores) |-> i]
            Column(k, field) ==
                SumOver(stores,
                        [i \in 1..Len(out.stores) |-> out.stores[i].products[k][field]])
        IN /\ \A k \in DOMAIN out.totals :
                 /\ Figure(out.totals[k].actual) = Column(k, "actual")
                 /\ Figure(out.totals[k].previous_year) = Column(k, "previous_year")
                 /\ Figure(out.totals[k].two_years_ago) = Column(k, "two_years_ago")
           /\ \A i \in 1..Len(out.stores) :
                 out.stores[i].total =
                    SumOver(matrix.kpis,
                            [k \in SeqRange(matrix.kpis) |->
                                out.stores[i].products[k].actual])


-----------------------------------------------------------------------------
\* C13: every row of the fact table carries the first day of its month,
\* whatever date the caller of a write path supplied.
C13_MonthStartDates ==
    \A r \in kpi_values : r.date[3] = 1


-----------------------------------------------------------------------------
\* the positions of the rows of table dated month with the given flag
RowsOfMonth(table, month, is_target) ==
    {i \in 1..Len(table) : table[i].date = month /\ table[i].is_target = is_target}

(* C14: in the department summary a degenerate metric (missing operand or   *)
(* zero divisor) is reported as null and a computable metric as its value:  *)
(* the monthly actual and target are null exactly when the month has no     *)
(* such row, the achievement rate is null exactly when the year-to-date     *)
(* target is zero or was not requested, and for a month with an actual the  *)
(* year-on-year rate is null exactly when the previous year's actual is     *)
(* zero; a computed zero is reported as zero.                               *)
C14_NullOnlyWhenDegenerate ==
    calc.fn = "get_department_summary.kpis" =>
        LET table == calc.args[1]
            month == normalize_to_month_start(calc.args[2])
            include_ytd == calc.args[3]
            actuals == RowsOfMonth(table, month, FALSE)
            targets == RowsOfMonth(table, month, TRUE)
            previous == RowsOfMonth(table, get_previous_year_month(month), FALSE)
            ytd_actual == SumAt(table, YtdWindow(table, month, FALSE))
            ytd_target == SumAt(table, YtdWindow(table, month, TRUE))
        IN /\ calc.out.actual =
                 IF actuals = {} THEN NULL ELSE SumAt(table, actuals)
           /\ calc.out.target =
                 IF targets = {} THEN NULL ELSE SumAt(table, targets)
           /\ calc.out.achievement_rate =
                 IF include_ytd /\ ytd_target # 0
                 THEN RoundHalfUp(ytd_actual * 10000, ytd_target) ELSE NULL
           /\ actuals # {} =>
                 calc.out.yoy_rate =
                    IF SumAt(table, previous) # 0
                    THEN RoundHalfUp((SumAt(table, actuals) - SumAt(table, previous)) * 10000,
                                     SumAt(table, previous))
                    ELSE NULL

-----------------------------------------------------------------------------
(* C19: with fact rows for fiscal year 2024 holding a monthly actual of 100 *)
(* and a monthly target of 120 for every month from September 2024 to       *)
(* August 2025, the department summary as of November 2024 returns a        *)
(* year-to-date actual of 300, a year-to-date target of 360, an achievement *)
(* rate of 83.33 and the alert level "warning".                             *)
C19_SummaryAsOfNovember ==
    (/\ calc.fn = "get_department_summary.kpis"
     /\ calc.args[1] = FY2024Table
     /\ calc.args[2][1] = 2024 /\ calc.args[2][2] = 11
     /\ calc.args[3]) =>
        /\ calc.out.ytd_actual = 300
        /\ calc.out.ytd_target = 360
        /\ calc.out.achievement_rate = 8333
        /\ calc.out.alert_level = "warning"

\* the summary of the fiscal-year-2024 table was produced as of November 2024
C19_Witness ==
    /\ calc.fn = "get_department_summary.kpis"
    /\ calc.args = <<FY2024Table, <<2024, 11, 1>>, TRUE>>
    /\ calc.out.actual = 100 /\ calc.out.target = 120
    /\ calc.out.ytd_actual = 300


-----------------------------------------------------------------------------
\* the sum of a field over the rows of the window, None counting as zero
RECURSIVE WindowSum(_, _, _, _)
WindowSum(table, from, to, field) ==
    IF from > to \/ from > Len(table) THEN 0
    ELSE Figure(table[from][field]) + WindowSum(table, from + 1, to, field)

RateNumerator ==
    [gross_profit_rate |-> "gross_profit", labor_cost_rate |-> "labor_cost",
     operating_profit_rate |-> "operating_profit"]

-----------------------------------------------------------------------------
(* C16: a failure of the persistence service during a read propagates as a  *)
(* failure of the request: a function whose read failed raises, it does not *)
(* return an empty or partial result as success.                            *)
C16_ReadFailurePropagates ==
    (calc.fn = "get_available_months" /\ calc.args[3] # "none") => calc.out.raised


-----------------------------------------------------------------------------
ActualRows(tbl) == {r \in tbl : ~r.is_target}
RowIds(tbl) == {r.id : r \in tbl}

(* C17: create_target_value, update_target_value and delete_target_value    *)
(* leave the rows with is_target = false exactly as they found them, also   *)
(* when they are given the id or the key of an actual row, and only         *)
(* delete_target_value removes a row of the fact table.                     *)
C17_IndependentSeries ==
    /\ calc.fn \in {"create_target_value", "update_target_value", "delete_target_value"} =>
          ActualRows(kpi_values) = ActualRows(calc.out.before)
    /\ calc.fn \in {"create_target_value", "update_target_value", "upsert_kpi_value"} =>
          RowIds(calc.out.before) \subseteq RowIds(kpi_values)

\* delete_target_value was given the id of an actual row, next to a target
\* row of the same segment, KPI and month, and removed nothing
C17_Witness ==
    /\ calc.fn = "delete_target_value"
    /\ \E a, t \in calc.out.before :
          /\ ~a.is_target /\ t.is_target
          /\ a.id = calc.args[1]
          /\ <<a.segment_id, a.kpi_id, a.date>> = <<t.segment_id, t.kpi_id, t.date>>
    /\ kpi_values = calc.out.before


-----------------------------------------------------------------------------
(* C18: the year-to-date aggregate as of a date is the sum of the values of *)
(* exactly the rows whose target/actual flag matches and whose date lies in *)
(* the closed window from September 1 of the fiscal year of the as-of date  *)
(* to the as-of date; rows before the window, after it, or of the other     *)
(* flag add nothing.                                                        *)
C18_YtdSumsTheWindow ==
    calc.fn = "calculate_ytd" =>
        calc.out.value =
            SumAt(calc.args[1], YtdWindow(calc.args[1], calc.args[2], calc.args[3]))

\* year-to-date as of October 2024 over a row of August 2024 (the month
\* before the fiscal year starts) and a row of October 2024, both of the
\* requested flag: only the second is counted
C18_Witness ==
    /\ calc.fn = "calculate_ytd"
    /\ calc.args[2] = <<2024, 10, 1>>
    /\ Len(calc.args[1]) = 2
    /\ calc.args[1][1].date = <<2024, 8, 1>> /\ calc.args[1][1].is_target = calc.args[3]
    /\ calc.args[1][2].date = <<2024, 10, 1>> /\ calc.args[1][2].is_target = calc.args[3]
    /\ calc.out.value = 100


-----------------------------------------------------------------------------
(* C20: for every year Y and every date d from September 1 of Y to August   *)
(* 31 of Y + 1, the fiscal year of d is Y, in each of the three functions   *)
(* that compute it: metrics.get_fiscal_year, period_utils.get_fiscal_year   *)
(* and financial_import_service.calculate_fiscal_year.                      *)
C20_FiscalYearOfDate ==
    calc.fn = "fiscal_year" =>
        \A Y \in 2022..2025 :
            (DateLE(<<Y, 9, 1>>, calc.args[1]) /\ DateLE(calc.args[1], <<Y + 1, 8, 31>>)) =>
                /\ calc.out.metrics = Y
                /\ calc.out.period_utils = Y
                /\ calc.out.financial_import = Y

\* the last day of a fiscal year: August 31, 2025 belongs to fiscal year 2024
C20_Witness ==
    /\ calc.fn = "fiscal_year"
    /\ calc.args[1] = <<2025, 8, 31>>
    /\ calc.out.metrics = 2024 /\ calc.out.period_utils = 2024
    /\ calc.out.financial_import = 2024


-----------------------------------------------------------------------------
(* C21: for every month m in 1..12, get_quarter(m) is 1 for September to    *)
(* November, 2 for December to February, 3 for March to May and 4 for June  *)
(* to August, and m is one of get_quarter_months(get_quarter(m)).           *)
C21_QuarterOfMonth ==
    calc.fn = "get_quarter" =>
        LET m == calc.args[1]
        IN /\ m \in {9, 10, 11} => calc.out.quarter = 1
           /\ m \in {12, 1, 2} => calc.out.quarter = 2
           /\ m \in {3, 4, 5} => calc.out.quarter = 3
           /\ m \in {6, 7, 8} => calc.out.quarter = 4
           /\ \E i \in 1..3 : calc.out.months[i] = m

\* January, a month of the quarter that spans the turn of the year
C21_Witness ==
    /\ calc.fn = "get_quarter"
    /\ calc.args[1] = 1
    /\ calc.out.quarter = 2
    /\ calc.out.months = <<12, 1, 2>>


-----------------------------------------------------------------------------
(* C22: the alert level of an achievement rate r is "none" if r >= 100,     *)
(* "warning" if 80 <= r < 100, "critical" if r < 80, and "none" if r is     *)
(* null; in particular it is "none" at 100, "warning" at 80.00 and          *)
(* "critical" at 79.99.                                                     *)
C22_AlertLevel ==
    calc.fn = "get_alert_level" =>
        LET r == calc.args[1]
        IN calc.out = IF r = NULL THEN "none"
                      ELSE IF r >= 10000 THEN "none"
                      ELSE IF 8000 <= r /\ r < 10000 THEN "warning"
                      ELSE "critical"

\* the lower end of the warning band
C22_Witness ==
    /\ calc.fn = "get_alert_level"
    /\ calc.args[1] = 8000
    /\ calc.out = "warning"

-----------------------------------------------------------------------------
Abs(x) == IF x < 0 THEN 0 - x ELSE x

\* q is n / d rounded to the nearest integer, a tie going away from zero
IsHalfUpQuotient(q, n, d) ==
    /\ 2 * Abs(n) - Abs(d) < 2 * Abs(q) * Abs(d)
    /\ 2 * Abs(q) * Abs(d) <= 2 * Abs(n) + Abs(d)
    /\ q > 0 => ((n > 0) = (d > 0))
    /\ q < 0 => ((n > 0) # (d > 0))

(* C23: for every non-zero previous value the year-on-year rate is          *)
(* (current - previous) / previous x 100 rounded to 2 decimals (half away   *)
(* from zero) with its sign: a decrease from a positive previous value      *)
(* gives a negative rate; the rate of 110 over 100 is 10.00 and that of 90  *)
(* over 100 is -10.00.                                                      *)
C23_YoyRate ==
    (calc.fn = "metrics.calculate_yoy_rate" /\ calc.args[2] # 0) =>
        LET current == calc.args[1]
            previous == calc.args[2]
        IN /\ ~calc.out.raised
           /\ IsHalfUpQuotient(calc.out.value, (current - previous) * 10000, previous)
           /\ (previous > 0 /\ current < previous) => calc.out.value < 0
           /\ (current = 110 /\ previous = 100) => calc.out.value = 1000
           /\ (current = 90 /\ previous = 100) => calc.out.value = 0 - 1000

\* a decrease: 90 after 100
C23_Witness ==
    /\ calc.fn = "metrics.calculate_yoy_rate"
    /\ calc.args = <<90, 100>>
    /\ calc.out.value = 0 - 1000


-----------------------------------------------------------------------------
\* the keys under which @cached(prefix="dashboard") stores its entries
DashboardKeys == {generate_key("dashboard", month) : month \in ReportMonths}

(* C24: clear_prefix(p) removes every live entry that was stored by a       *)
(* function decorated with @cached(prefix=p) and returns the number of      *)
(* entries removed: after clear_prefix("dashboard") no entry of the cached  *)
(* dashboard report that had not expired is left, and the count returned is *)
(* the number of entries that are gone.                                     *)
C24_ClearPrefixRemoves ==
    calc.fn = "clear_prefix" =>
        /\ calc.args[1] = <<"d","a","s","h","b","o","a","r","d">> =>
              \A k \in DashboardKeys \cap DOMAIN calc.out.before :
                  calc.out.before[k].expires_at >= calc.out.at =>
                      k \notin DOMAIN calc.out.after
        /\ calc.out.count =
              Cardinality(DOMAIN calc.out.before \ DOMAIN calc.out.after)


-----------------------------------------------------------------------------
(* C26: the imported count returned by import_store_kpi equals the number   *)
(* of records written to the fact table, also when the records span several *)
(* batches and a later batch fails after earlier batches were committed;    *)
(* the records counted as written are in the table with the imported value. *)
C26_ImportedCountsWritten ==
    calc.fn = "import_store_kpi" =>
        /\ calc.out.imported = calc.out.written
        /\ LET kpi_records == KpiRecords(calc.args[1], calc.args[2])
           IN \A i \in 1..calc.out.written :
                 \E r \in kpi_values :
                     Key(r) = Key(kpi_records[i]) /\ r.value = kpi_records[i].value


-----------------------------------------------------------------------------
(* C27: in the regional summary the target_sales shown for a region equals  *)
(* the sum of the sales targets of exactly the stores listed under that     *)
(* region (none counting as zero), the stores placed in the fallback bucket *)
(* for lack of a mapping included.                                          *)
C27_RegionTargetOfListedStores ==
    calc.fn = "get_regional_summary.target_sales" =>
        LET store_target_sales == calc.args[4]
            TargetOf == [s \in SeqRange(calc.args[1]) |->
                            IF s \in DOMAIN store_target_sales
                            THEN store_target_sales[s] ELSE 0]
        IN \A i \in 1..Len(calc.out) :
              Figure(calc.out[i].target_sales) = SumStores(calc.out[i].stores, TargetOf)


-----------------------------------------------------------------------------
(* C25: for every period type and every valid month and quarter the range   *)
(* returned by get_period_range(type, Y, month, quarter) lies within fiscal *)
(* year Y, from September 1 of Y to August 31 of Y + 1, and the default     *)
(* period that get_dashboard_data builds from get_current_period_defaults() *)
(* contains today's date.                                                   *)
C25_RangeWithinFiscalYear ==
    /\ calc.fn = "get_period_range" =>
          /\ DateLE(<<calc.args[2], 9, 1>>, calc.out[1])
          /\ DateLE(calc.out[1], calc.out[2])
          /\ DateLE(calc.out[2], <<calc.args[2] + 1, 8, 31>>)
    /\ calc.fn = "get_dashboard_data.period" =>
          DateLE(calc.out[1], calc.args[2]) /\ DateLE(calc.args[2], calc.out[2])


-----------------------------------------------------------------------------
(* C28: in the department summary the reported alert_level always equals    *)
(* get_alert_level applied to the reported achievement_rate: a null         *)
(* reported rate goes with "none" and a reported rate below 80 with         *)
(* "critical".                                                              *)
C28_AlertOfReportedRate ==
    calc.fn = "get_department_summary.kpis" =>
        calc.out.alert_level = get_alert_level(calc.out.achievement_rate)


-----------------------------------------------------------------------------
(* C29: per client ip, every window of window_seconds holds at most         *)
(* max_requests admitted requests that are not exempt; a rejected request   *)
(* is not recorded: the recorded timestamps are the latest admitted ones,   *)
(* a request is rejected only when the window that ends with it already     *)
(* holds max_requests admitted requests, and is admitted otherwise.         *)
C29_RateLimit ==
    /\ \A client_ip \in ClientIps, t \in 0..MaxTime :
          InWindow(limiter.admitted[client_ip], t) <= max_requests
    /\ \A client_ip \in ClientIps :
          LET admitted == limiter.admitted[client_ip]
          IN \E k \in 0..Len(admitted) :
                requests[client_ip] = SubSeq(admitted, k + 1, Len(admitted))
    /\ limiter.last.status = 429 => limiter.last.in_window >= max_requests
    /\ (limiter.last.status = 200 /\ limiter.last.path \notin ExemptPaths) =>
          limiter.last.in_window < max_requests

\* a client that was rejected is admitted again once the window has moved on
C29_Witness ==
    /\ limiter.last.client_ip \in limiter.rejected
    /\ limiter.last.status = 200
    /\ limiter.last.path \notin ExemptPaths
    /\ Len(limiter.admitted[limiter.last.client_ip]) > max_requests


-----------------------------------------------------------------------------
(* C30: every financial_data row carries the fiscal year, starting in       *)
(* September, of its month, whichever write path stored it: for each of the *)
(* twelve months save_financial_targets and import_financial_data assign    *)
(* the year of the month from September to December and the year before     *)
(* from January to August.                                                  *)
C30_SeptemberFiscalYear ==
    calc.fn \in {"save_financial_targets", "import_financial_data"} =>
        calc.out.fiscal_year =
            IF calc.out.month[2] >= 9 THEN calc.out.month[1] ELSE calc.out.month[1] - 1

====
